---- MODULE Spec2Model ----
(***************************************************************************)
(* Model of the Swimtopia export tools.                                    *)
(*                                                                         *)
(*   Spec      the export-task lifecycle: task creation, status polling    *)
(*             and artifact download, in the three implementations         *)
(*             (swimtopia_export.py, swimtopia_export_enhanced.py,         *)
(*             swimtopia_simple.py).                                       *)
(*   SpecLoad  the cache loaders: event list (dedup + sort) and athlete    *)
(*             index.                                                      *)
(***************************************************************************)
EXTENDS Integers, Sequences, FiniteSets, TLC

VARIABLES
    op,             \* which operation is being called: "create", "poll", "download"
    impl,           \* "basic" (swimtopia_export), "enhanced", "simple"
    pc,             \* position inside the called function
    log,            \* remote requests and sleeps performed so far, in order
    result,         \* the value returned by the call (kind "pending" until then)
    reason,         \* which return statement produced the result
    attempt,        \* loop variable of poll_export_status
    max_attempts,   \* argument of poll_export_status
    show_progress,  \* argument of the enhanced poll_export_status
    clock,          \* time.time(), in seconds
    start_time,     \* start_time of wait_for_export
    max_wait,       \* argument of wait_for_export
    task_id_arg,    \* task_id argument of the enhanced create_export_task ("" = None)
    uuid,           \* the value uuid.uuid4() yields in this call
    file,           \* the destination file of a download
    dir_made,       \* whether the download created its output directory
    pending,        \* chunks of the download body not yet written
    loader,         \* which loader is running
    lpc,            \* position inside the loader
    docs,           \* the cached documents read so far, in reading order
    all_events,     \* all_events of load_all_events
    events_out,     \* the list the event loader returned
    athletes,       \* the athletes dict of load_athletes
    event_id,       \* the event whose details load_event_details looks for
    view,           \* what the renderer has produced: one entry per rendered event
    time_int,       \* the argument of format_time
    formatted,      \* the strings the time formatters returned for time_int
    renderer,       \* which renderer lists the athletes of a record
    event_type,     \* eventType of the event the record belongs to
    record,         \* the eventRecord being listed: its relationships
    relay_positions,\* the relay_positions lookup map of the event
    athlete_display,\* the athlete display produced for the record
    value,          \* the argument of infer_type
    inferred,       \* what infer_type returned for value (<<>> before the call)
    auth_impl,      \* whose authenticate is called: "basic" or "enhanced"
    access_token,   \* exporter.access_token
    token_expires_at, \* exporter.token_expires_at (enhanced only)
    authorization,  \* the Authorization header of exporter.session
    time_now,       \* time.time()
    calls,          \* how many authenticate calls have been made on the exporter
    token_requests, \* how many token requests have been sent
    last_resp,      \* the token response of the latest authenticate call
    last_at,        \* the time of the latest authenticate call
    auth_result,    \* what the latest authenticate call returned
    token_valid,    \* what is_token_valid() returned, "unchecked" once the state moved on
    script,         \* whose main runs: "basic", "enhanced", "simple"
    mpc,            \* position inside main
    steps,          \* the remote steps main has made, in order, with their results
    list_only,      \* --list-only
    no_download,    \* --no-download
    credentials_edited, \* USERNAME of swimtopia_simple.py was edited
    exit_status,    \* how main ended: "running", "returned", "exit0", "exit1", "raised"
    output_dir,     \* the output_dir argument of download_export, as path parts
    content_disposition, \* the content-disposition header of the artifact response
    export_url,     \* the artifact URL
    output_path     \* the path download_export opens for writing

exportVars == <<op, impl, pc, log, result, reason, attempt, max_attempts,
                show_progress, clock, start_time, max_wait, task_id_arg, uuid,
                file, dir_made, pending>>
loadVars == <<loader, lpc, docs, all_events, events_out, athletes, event_id, view>>
formatVars == <<time_int, formatted>>
recordVars == <<renderer, event_type, record, relay_positions, athlete_display>>
inferVars == <<value, inferred>>
pureVars == <<time_int, formatted, renderer, event_type, record, relay_positions,
              athlete_display, value, inferred>>
authVars == <<auth_impl, access_token, token_expires_at, authorization, time_now, calls,
              token_requests, last_resp, last_at, auth_result, token_valid>>
mainVars == <<script, mpc, steps, list_only, no_download, credentials_edited, exit_status>>
pathVars == <<output_dir, content_disposition, export_url, output_path>>
scriptVars == <<authVars, mainVars, pathVars>>
vars == <<op, impl, pc, log, result, reason, attempt, max_attempts,
          show_progress, clock, start_time, max_wait, task_id_arg, uuid,
          file, dir_made, pending, loader, lpc, docs, all_events, events_out,
          athletes, event_id, view, time_int, formatted, renderer, event_type,
          record, relay_positions, athlete_display, value, inferred,
          scriptVars>>

(***************************************************************************)
(* Bounds                                                                  *)
(***************************************************************************)
MaxAttempts == 3
MaxWait == 5
MaxFetchSecs == 1
MaxChunks == 2
MaxDocs == 2
MaxItems == 3
MaxRecords == 2

(***************************************************************************)
(* Program constants                                                       *)
(***************************************************************************)
SleepSecs == 2
HTTP_OK == 200
HTTP_CREATED == 201
HTTP_NOT_MODIFIED == 304

\* More log entries than any polling call makes within the bounds: at most
\* MaxAttempts fetches with a sleep between them, or one fetch and one sleep
\* per SleepSecs of MaxWait.  The fetches are guarded by it.
LogCap ==
    LET waits == (MaxWait + SleepSecs - 1) \div SleepSecs
    IN  2 * (IF MaxAttempts > waits THEN MaxAttempts ELSE waits) + 1

Exporters == {"basic", "enhanced"}
Impls == {"basic", "enhanced", "simple"}

(***************************************************************************)
(* HTTP responses.  status 0 stands for a request that raised a            *)
(* requests.exceptions.RequestException instead of answering.              *)
(* body: "doc"      a JSON object whose data is an object with attributes  *)
(*       "nodata"   a JSON object without a data key                       *)
(*       "nulldata" a JSON object whose data is null                       *)
(*       "notjson"  a body that does not parse as JSON                     *)
(***************************************************************************)
NoResp == [status |-> -1, body |-> "-", state |-> "-", href |-> "none", fname |-> "none"]

Answer(s) == [NoResp EXCEPT !.status = s]

OtherStatuses == {404, 500}

PollResponses ==
    {[status |-> HTTP_OK, body |-> "doc", state |-> "completed", href |-> h, fname |-> f] :
        h \in {"none", "url"}, f \in {"none", "name"}}
    \cup {[status |-> HTTP_OK, body |-> "doc", state |-> s, href |-> "none", fname |-> "none"] :
        s \in {"failed", "processing", "absent"}}
    \cup {[status |-> HTTP_OK, body |-> b, state |-> "-", href |-> "none", fname |-> "none"] :
        b \in {"nodata", "nulldata", "notjson"}}
    \cup {Answer(s) : s \in {HTTP_NOT_MODIFIED, 0} \cup OtherStatuses}

CreateResponses ==
    {[status |-> HTTP_CREATED, body |-> b, state |-> "-", href |-> "none", fname |-> "none"] :
        b \in {"doc", "nodata", "nulldata", "notjson"}}
    \cup {Answer(s) : s \in {HTTP_OK, 0} \cup OtherStatuses}

Chunks == {"a", "b"}

RECURSIVE SeqsUpTo(_, _)
SeqsUpTo(S, n) ==
    IF n = 0 THEN {<<>>}
    ELSE LET shorter == SeqsUpTo(S, n - 1)
         IN  shorter \cup {Append(s, x) : s \in {t \in shorter : Len(t) = n - 1}, x \in S}

DownloadResponses ==
    {[status |-> HTTP_OK, chunks |-> c] : c \in SeqsUpTo(Chunks, MaxChunks)}
    \cup {[status |-> s, chunks |-> <<>>] : s \in {0} \cup OtherStatuses}

(***************************************************************************)
(* Log entries and return values                                           *)
(***************************************************************************)
Get(r) == [what |-> "get", resp |-> r]
Post(r) == [what |-> "post", resp |-> r]
Slept == [what |-> "sleep", resp |-> NoResp]

Fetches(l) == {i \in 1..Len(l) : l[i].what = "get"}
Sleeps(l) == {i \in 1..Len(l) : l[i].what = "sleep"}
Posts(l) == {i \in 1..Len(l) : l[i].what = "post"}

Pending == [kind |-> "pending", val |-> "", data |-> NoResp]
PyNone == [kind |-> "None", val |-> "", data |-> NoResp]
PyNonePair == [kind |-> "None,None", val |-> "", data |-> NoResp]
PyTrue == [kind |-> "True", val |-> "", data |-> NoResp]
PyFalse == [kind |-> "False", val |-> "", data |-> NoResp]
Raised == [kind |-> "raised", val |-> "", data |-> NoResp]
TaskData(r) == [kind |-> "task_data", val |-> "", data |-> r]
UrlAndFilename(r) == [kind |-> "url,filename", val |-> "", data |-> r]
PyStr(s) == [kind |-> "str", val |-> s, data |-> NoResp]

Return(v, why) == [kind |-> "return", value |-> v, reason |-> why]
Raise == [kind |-> "raise", value |-> Raised, reason |-> "raised"]
Continue == [kind |-> "continue", value |-> Pending, reason |-> ""]

(***************************************************************************)
(* poll_export_status, swimtopia_export.py: one loop iteration, from the   *)
(* status fetch to the return or to the end of the if/elif chain.          *)
(***************************************************************************)
PollHandleBasic_IgnoresCompleted(r) ==
    IF r.status = 0 THEN Raise
    ELSE IF r.status = HTTP_OK THEN
        IF r.body \in {"notjson", "nulldata"} THEN Raise
        ELSE IF r.body = "doc" /\ r.state = "failed" THEN Return(PyNone, "failed")
        ELSE Continue
    ELSE IF r.status = HTTP_NOT_MODIFIED THEN Continue
    ELSE Return(PyNone, "transport_error")

PollHandleBasic(r) ==
    IF r.status = 0 THEN Raise
    ELSE IF r.status = HTTP_OK THEN
        IF r.body \in {"notjson", "nulldata"} THEN Raise
        ELSE IF r.body = "doc" /\ r.state = "completed" THEN Return(TaskData(r), "completed")
        ELSE IF r.body = "doc" /\ r.state = "failed" THEN Return(PyNone, "failed")
        ELSE Continue
    ELSE IF r.status = HTTP_NOT_MODIFIED THEN Continue
    ELSE Return(PyNone, "transport_error")

(***************************************************************************)
(* poll_export_status, swimtopia_export_enhanced.py.  json_caught: whether *)
(* the JSON decoding error of response.json() is a RequestException in     *)
(* the installed requests (it is since 2.27) and so is caught.             *)
(***************************************************************************)
PollHandleEnhanced(r, show, json_caught) ==
    IF r.status = 0 THEN Return(PyNone, "request_exception")
    ELSE IF r.status = HTTP_OK THEN
        IF r.body = "notjson" THEN
            (IF json_caught THEN Return(PyNone, "request_exception") ELSE Raise)
        ELSE IF r.body = "nulldata" THEN Raise
        ELSE IF r.body = "doc" /\ r.state = "completed" THEN
            (IF show /\ r.href = "none" THEN Raise
             ELSE Return(TaskData(r), "completed"))
        ELSE IF r.body = "doc" /\ r.state = "failed" THEN Return(PyNone, "failed")
        ELSE Continue
    ELSE IF r.status = HTTP_NOT_MODIFIED THEN Continue
    ELSE Return(PyNone, "transport_error")

(***************************************************************************)
(* wait_for_export, swimtopia_simple.py: one loop iteration up to the      *)
(* sleep.                                                                  *)
(***************************************************************************)
WaitHandle_IgnoresFailed(r) ==
    IF r.status = 0 THEN Raise
    ELSE IF r.status = HTTP_OK THEN
        IF r.body # "doc" \/ r.state = "absent" THEN Raise
        ELSE IF r.state = "completed" THEN
            (IF r.href = "none" \/ r.fname = "none" THEN Raise
             ELSE Return(UrlAndFilename(r), "completed"))
        ELSE Continue
    ELSE Continue

WaitHandle(r) ==
    IF r.status = 0 THEN Raise
    ELSE IF r.status = HTTP_OK THEN
        IF r.body # "doc" \/ r.state = "absent" THEN Raise
        ELSE IF r.state = "completed" THEN
            (IF r.href = "none" \/ r.fname = "none" THEN Raise
             ELSE Return(UrlAndFilename(r), "completed"))
        ELSE IF r.state = "failed" THEN Return(PyNonePair, "failed")
        ELSE Continue
    ELSE Continue

PollHandle(i, r, show, json_caught) ==
    IF i = "basic" THEN PollHandleBasic(r)
    ELSE PollHandleEnhanced(r, show, json_caught)

\* for attempt in range(1, max_attempts + 1): is there a next attempt after a?
HasNextAttempt_Extra(a, m) == a < m + 1

HasNextAttempt(a, m) == a < m

SleepsAfter_EveryAttempt(a, m) == TRUE

\* if attempt < max_attempts: time.sleep(poll_interval)
SleepsAfter(a, m) == a < m

StillWaiting_WhateverTheClock(now, start, wait) == 0 < wait

\* while time.time() - start_time < max_wait
StillWaiting(now, start, wait) == now - start < wait

PollTimeoutResult == Return(PyNone, "timed_out")
WaitTimeoutResult == Return(PyNonePair, "timed_out")

(***************************************************************************)
(* Task creation                                                           *)
(***************************************************************************)
TaskId(i, arg, u) == IF i = "enhanced" /\ arg # "" THEN arg ELSE u

CreateHandleBasic(r, tid) ==
    IF r.status = 0 THEN Raise
    ELSE IF r.status = HTTP_CREATED THEN Return(PyStr(tid), "created")
    ELSE Return(PyNone, "creation_failed")

CreateHandleEnhanced(r, tid, json_caught) ==
    IF r.status = 0 THEN Return(PyNone, "request_exception")
    ELSE IF r.status = HTTP_CREATED THEN
        IF r.body = "notjson" THEN
            (IF json_caught THEN Return(PyNone, "request_exception") ELSE Raise)
        ELSE IF r.body = "nulldata" THEN Raise
        ELSE Return(PyStr(tid), "created")
    ELSE Return(PyNone, "creation_failed")

CreateHandleSimple(r, tid) ==
    IF r.status = 0 THEN Raise
    ELSE IF r.status = HTTP_CREATED THEN Return(PyStr(tid), "created")
    ELSE Return(PyNone, "creation_failed")

CreateHandle(i, r, tid, json_caught) ==
    IF i = "basic" THEN CreateHandleBasic(r, tid)
    ELSE IF i = "enhanced" THEN CreateHandleEnhanced(r, tid, json_caught)
    ELSE CreateHandleSimple(r, tid)

(***************************************************************************)
(* Artifact download: what the function does with the status of the fetch  *)
(* ("open" = go on to open the destination file).                          *)
(***************************************************************************)
DownloadHandle_OpensOnAnyAnswer(i, status) ==
    IF status = 0 THEN
        (IF i = "enhanced" THEN Return(PyNone, "request_exception") ELSE Raise)
    ELSE [kind |-> "open", value |-> Pending, reason |-> ""]

DownloadHandle(i, status) ==
    IF status = 0 THEN
        (IF i = "enhanced" THEN Return(PyNone, "request_exception") ELSE Raise)
    ELSE IF status = HTTP_OK THEN [kind |-> "open", value |-> Pending, reason |-> ""]
    ELSE Return(IF i = "basic" THEN PyFalse ELSE PyNone, "download_failed")

\* basic reads response.content after iter_content has consumed the stream,
\* which requests answers with a RuntimeError.
DownloadResult(i) ==
    IF i = "basic" THEN Raise
    ELSE Return(PyStr("output_path"), "downloaded")

(***************************************************************************)
(* Cached documents.  A document either fails to parse (ok = FALSE) or     *)
(* holds the list found under its "data" key.  Strings that the code       *)
(* converts are sequences of characters.                                   *)
(***************************************************************************)
EventIds == {"E1", "E2"}
AthleteIds == {"A1", "A2"}
Digits == {"0", "1", "2", "3", "4", "5", "6", "7", "8", "9"}

DigitVal(c) ==
    CASE c = "0" -> 0 [] c = "1" -> 1 [] c = "2" -> 2 [] c = "3" -> 3 [] c = "4" -> 4
      [] c = "5" -> 5 [] c = "6" -> 6 [] c = "7" -> 7 [] c = "8" -> 8 [] c = "9" -> 9

\* the eventNumber attribute: absent, or a text
NoNum == [has |-> FALSE, txt |-> <<>>]
Num(t) == [has |-> TRUE, txt |-> t]
EventNumbers == {NoNum, Num(<<"2">>), Num(<<"1", "0">>), Num(<<"b", "a", "d">>)}

\* A resource of an events-list document (type "event"), or a node of an
\* event-nodes document: type "eventNode" or another type, id = the id of
\* relationships.event.data ("" when the node has no event reference).
\* origin stands for the rest of the resource's content.
EventItems == {[type |-> "event", id |-> i, num |-> n, origin |-> "events"] :
                  i \in EventIds, n \in EventNumbers}
NodeItems == {[type |-> "eventNode", id |-> i, num |-> n, origin |-> "nodes"] :
                  i \in EventIds, n \in {NoNum, Num(<<"2">>)}}
             \cup {[type |-> "eventNode", id |-> "", num |-> NoNum, origin |-> "nodes"],
                   [type |-> "other", id |-> "E1", num |-> NoNum, origin |-> "nodes"]}

\* An athlete resource; Absent marks a missing attribute, broken a resource
\* whose attributes are null (attrs.get raises).
Absent == "<absent>"
AthleteAttrs == {[first |-> "Al", dfirst |-> Absent, last |-> "Lee"],
                 [first |-> "Al", dfirst |-> "Ali", last |-> "Lee"],
                 [first |-> Absent, dfirst |-> Absent, last |-> "Lee"],
                 [first |-> "Bo", dfirst |-> Absent, last |-> Absent]}
AthleteItems == {[id |-> i, broken |-> FALSE, attrs |-> a] : i \in AthleteIds, a \in AthleteAttrs}
                \cup {[id |-> "A1", broken |-> TRUE,
                       attrs |-> [first |-> Absent, dfirst |-> Absent, last |-> Absent]]}

Unparsable(k) == [kind |-> k, ok |-> FALSE, items |-> <<>>]
Document(k, xs) == [kind |-> k, ok |-> TRUE, items |-> xs]

RECURSIVE ItemCount(_)
ItemCount(ds) == IF ds = <<>> THEN 0 ELSE Len(Head(ds).items) + ItemCount(Tail(ds))

\* the documents a loader may read next, within the bounds
NextDocs(k, Items, ds) ==
    IF Len(ds) >= MaxDocs THEN {}
    ELSE {Unparsable(k)} \cup {Document(k, xs) : xs \in SeqsUpTo(Items, MaxItems - ItemCount(ds))}

EmptyDict == [x \in {} |-> 0]

(***************************************************************************)
(* load_all_events: conversion of nodes, deduplication, sort               *)
(***************************************************************************)
\* the event built from a node, appended when the node is an eventNode with
\* an event reference
RECURSIVE EventsOfNodes(_)
EventsOfNodes(nodes) ==
    IF nodes = <<>> THEN <<>>
    ELSE LET n == Head(nodes)
             rest == EventsOfNodes(Tail(nodes))
         IN  IF n.type = "eventNode" /\ n.id # ""
             THEN <<[type |-> "event", id |-> n.id, num |-> n.num, origin |-> n.origin]>> \o rest
             ELSE rest

IdsOf(evs) == {evs[i].id : i \in 1..Len(evs)}

\* events_by_id: an event is kept when its id is not yet a key
RECURSIVE DedupInto(_, _)
DedupInto(kept, evs) ==
    IF evs = <<>> THEN kept
    ELSE DedupInto(IF Head(evs).id \in IdsOf(kept) THEN kept ELSE Append(kept, Head(evs)),
                   Tail(evs))

RECURSIVE DedupLastInto(_, _)
DedupLastInto(kept, evs) ==
    IF evs = <<>> THEN kept
    ELSE DedupLastInto(
            IF Head(evs).id \in IdsOf(kept)
            THEN [i \in 1..Len(kept) |-> IF kept[i].id = Head(evs).id THEN Head(evs) ELSE kept[i]]
            ELSE Append(kept, Head(evs)),
            Tail(evs))

DedupById_LastWins(evs) == DedupLastInto(<<>>, evs)

DedupById(evs) == DedupInto(<<>>, evs)

\* e.get("attributes", {}).get("eventNumber", "999")
SortKeyText(e) == IF e.num.has THEN e.num.txt ELSE <<"9", "9", "9">>

\* int(text) succeeds on a non-empty run of digits
IsIntText(t) == t # <<>> /\ \A i \in 1..Len(t) : t[i] \in Digits

RECURSIVE PyInt(_)
PyInt(t) == IF t = <<>> THEN 0 ELSE 10 * PyInt(SubSeq(t, 1, Len(t) - 1)) + DigitVal(t[Len(t)])

SortKey(e) == PyInt(SortKeyText(e))

\* list.sort(key=...) is stable: an element goes after the elements whose
\* key is not greater
RECURSIVE InsertByKey(_, _)
InsertByKey(sorted, e) ==
    IF sorted = <<>> THEN <<e>>
    ELSE IF SortKey(Head(sorted)) <= SortKey(e)
         THEN <<Head(sorted)>> \o InsertByKey(Tail(sorted), e)
         ELSE <<e>> \o sorted

RECURSIVE SortInto(_, _)
SortInto(sorted, evs) ==
    IF evs = <<>> THEN sorted ELSE SortInto(InsertByKey(sorted, Head(evs)), Tail(evs))

SortByEventNumber(evs) == SortInto(<<>>, evs)

\* the key function raises ValueError on some element
SortRaises(evs) == \E i \in 1..Len(evs) : ~IsIntText(SortKeyText(evs[i]))

(***************************************************************************)
(* load_athletes: the entry built from an athlete resource                 *)
(***************************************************************************)
IsBlank(tok) == tok \in {"", " "}

RECURSIVE LStrip(_)
LStrip(toks) == IF toks # <<>> /\ IsBlank(Head(toks)) THEN LStrip(Tail(toks)) ELSE toks

RECURSIVE RStrip(_)
RStrip(toks) ==
    IF toks # <<>> /\ IsBlank(toks[Len(toks)]) THEN RStrip(SubSeq(toks, 1, Len(toks) - 1)) ELSE toks

Strip(toks) == RStrip(LStrip(toks))

\* f"{attrs.get('displayFirstName', attrs.get('firstName', ''))} {attrs.get('lastName', '')}".strip()
DisplayName(a) ==
    Strip(<<IF a.dfirst # Absent THEN a.dfirst ELSE IF a.first # Absent THEN a.first ELSE "",
            " ",
            IF a.last # Absent THEN a.last ELSE "">>)

AthleteEntry(a) == [firstName |-> a.first, lastName |-> a.last, displayName |-> DisplayName(a)]

\* athletes[athlete_id] = {...}
DictSet_KeepsExisting(d, k, v) ==
    [x \in DOMAIN d \cup {k} |-> IF x \in DOMAIN d THEN d[x] ELSE v]

DictSet(d, k, v) == [x \in DOMAIN d \cup {k} |-> IF x = k THEN v ELSE d[x]]

\* the for loop over one document's athletes; an exception ends the loop
\* and leaves what was stored before it
RECURSIVE StoreAthletes(_, _)
StoreAthletes(d, items) ==
    IF items = <<>> \/ Head(items).broken THEN d
    ELSE StoreAthletes(DictSet(d, Head(items).id, AthleteEntry(Head(items).attrs)), Tail(items))

NoFile == [exists |-> FALSE, content |-> <<>>]
OldFile == [exists |-> TRUE, content |-> <<"old">>]

(***************************************************************************)
(* Initial states of the export lifecycle: one call of one operation.      *)
(***************************************************************************)
LoadIdle ==
    /\ loader = "none"
    /\ lpc = "idle"
    /\ docs = <<>>
    /\ all_events = <<>>
    /\ events_out = <<>>
    /\ athletes = EmptyDict
    /\ event_id = ""
    /\ view = <<>>

NoTime == [has |-> FALSE, n |-> 0]

FormatIdle ==
    /\ time_int = NoTime
    /\ formatted = EmptyDict

NoRecord == [refs |-> <<>>, athlete |-> ""]
NotShown == [kind |-> "none", name |-> <<>>, swimmers |-> <<>>]

RecordIdle ==
    /\ renderer = "none"
    /\ event_type = ""
    /\ record = NoRecord
    /\ relay_positions = EmptyDict
    /\ athlete_display = NotShown

JsonNull == [t |-> "null", v |-> <<>>, items |-> <<>>]

InferIdle ==
    /\ value = JsonNull
    /\ inferred = <<>>

\* a value that may be None: the access token, a point in time, a number of
\* seconds
NoToken == [has |-> FALSE, txt |-> ""]
Token(t) == [has |-> TRUE, txt |-> t]
Never == [has |-> FALSE, n |-> 0]
At(t) == [has |-> TRUE, n |-> t]
NoHeader == [has |-> FALSE, val |-> <<>>]
NoTokenResponse == [status |-> -1, body |-> "none", token |-> NoToken, expires_in |-> Never]

AuthIdle ==
    /\ auth_impl = "none"
    /\ access_token = NoToken
    /\ token_expires_at = Never
    /\ authorization = NoHeader
    /\ time_now = 0
    /\ calls = 0
    /\ token_requests = 0
    /\ last_resp = NoTokenResponse
    /\ last_at = 0
    /\ auth_result = "none"
    /\ token_valid = "unchecked"

MainIdle ==
    /\ script = "none"
    /\ mpc = "idle"
    /\ steps = <<>>
    /\ list_only = FALSE
    /\ no_download = FALSE
    /\ credentials_edited = FALSE
    /\ exit_status = "running"

\* no file has been opened yet
NoPath == [opened |-> FALSE, abs |-> FALSE, parts |-> <<>>]

PathIdle ==
    /\ output_dir = <<>>
    /\ content_disposition = <<>>
    /\ export_url = <<>>
    /\ output_path = NoPath

ScriptIdle ==
    /\ AuthIdle
    /\ MainIdle
    /\ PathIdle

PureIdle ==
    /\ FormatIdle
    /\ RecordIdle
    /\ InferIdle

Init ==
    /\ op \in {"create", "poll", "download"}
    /\ impl \in Impls
    /\ pc = IF op = "create" THEN "request"
            ELSE IF op = "poll" THEN "loop"
            ELSE IF impl = "enhanced" THEN "mkdir" ELSE "fetch"
    /\ log = <<>>
    /\ result = Pending
    /\ reason = ""
    /\ attempt = 0
    /\ max_attempts \in (IF op = "poll" /\ impl \in Exporters THEN -1..MaxAttempts ELSE {0})
    /\ show_progress \in (IF op = "poll" /\ impl = "enhanced" THEN BOOLEAN ELSE {FALSE})
    /\ clock = 0
    /\ start_time = 0
    /\ max_wait \in (IF op = "poll" /\ impl = "simple" THEN 0..MaxWait ELSE {0})
    /\ task_id_arg \in (IF op = "create" /\ impl = "enhanced" THEN {"", "t1"} ELSE {""})
    /\ uuid \in (IF op = "create" THEN {"u1", "u2"} ELSE {""})
    /\ file \in (IF op = "download" THEN {NoFile, OldFile} ELSE {NoFile})
    /\ dir_made = FALSE
    /\ pending = <<>>
    /\ LoadIdle
    /\ PureIdle
    /\ ScriptIdle

Finish(o) ==
    /\ result' = o.value
    /\ reason' = o.reason
    /\ pc' = IF o.kind = "raise" THEN "raised" ELSE "done"

\* create_export_task / create_export: the whole call.
CreateExportTask ==
    /\ op = "create" /\ pc = "request"
    /\ \E r \in CreateResponses, json_caught \in BOOLEAN :
        /\ log' = Append(log, Post(r))
        /\ Finish(CreateHandle(impl, r, TaskId(impl, task_id_arg, uuid), json_caught))
    /\ UNCHANGED <<op, impl, attempt, max_attempts, show_progress, clock, start_time,
                   max_wait, task_id_arg, uuid, file, dir_made, pending>>
    /\ UNCHANGED loadVars
    /\ UNCHANGED pureVars
    /\ UNCHANGED scriptVars

\* poll_export_status: one iteration of the for loop, up to the sleep.
PollFetch ==
    /\ op = "poll" /\ impl \in Exporters /\ pc = "loop"
    /\ HasNextAttempt(attempt, max_attempts)
    /\ Len(log) < LogCap
    /\ \E r \in PollResponses, json_caught \in BOOLEAN :
        LET o == PollHandle(impl, r, show_progress, json_caught) IN
        /\ log' = Append(log, Get(r))
        /\ attempt' = attempt + 1
        /\ IF o.kind = "continue"
           THEN /\ pc' = IF SleepsAfter(attempt + 1, max_attempts) THEN "sleep" ELSE "loop"
                /\ UNCHANGED <<result, reason>>
           ELSE Finish(o)
    /\ UNCHANGED <<op, impl, max_attempts, show_progress, clock, start_time,
                   max_wait, task_id_arg, uuid, file, dir_made, pending>>
    /\ UNCHANGED loadVars
    /\ UNCHANGED pureVars
    /\ UNCHANGED scriptVars

\* time.sleep(poll_interval)
PollSleep ==
    /\ op = "poll" /\ impl \in Exporters /\ pc = "sleep"
    /\ log' = Append(log, Slept)
    /\ pc' = "loop"
    /\ UNCHANGED <<op, impl, result, reason, attempt, max_attempts, show_progress,
                   clock, start_time, max_wait, task_id_arg, uuid, file, dir_made, pending>>
    /\ UNCHANGED loadVars
    /\ UNCHANGED pureVars
    /\ UNCHANGED scriptVars

\* the for loop is exhausted
PollTimeout ==
    /\ op = "poll" /\ impl \in Exporters /\ pc = "loop"
    /\ ~HasNextAttempt(attempt, max_attempts)
    /\ Finish(PollTimeoutResult)
    /\ UNCHANGED <<op, impl, log, attempt, max_attempts, show_progress, clock,
                   start_time, max_wait, task_id_arg, uuid, file, dir_made, pending>>
    /\ UNCHANGED loadVars
    /\ UNCHANGED pureVars
    /\ UNCHANGED scriptVars

\* wait_for_export: one iteration of the while loop, up to the sleep; the
\* fetch itself takes d seconds.
WaitFetch ==
    /\ op = "poll" /\ impl = "simple" /\ pc = "loop"
    /\ StillWaiting(clock, start_time, max_wait)
    /\ Len(log) < LogCap
    /\ \E r \in PollResponses, d \in 0..MaxFetchSecs :
        LET o == WaitHandle(r) IN
        /\ log' = Append(log, Get(r))
        /\ clock' = clock + d
        /\ IF o.kind = "continue"
           THEN /\ pc' = "sleep"
                /\ UNCHANGED <<result, reason>>
           ELSE Finish(o)
    /\ UNCHANGED <<op, impl, attempt, max_attempts, show_progress, start_time,
                   max_wait, task_id_arg, uuid, file, dir_made, pending>>
    /\ UNCHANGED loadVars
    /\ UNCHANGED pureVars
    /\ UNCHANGED scriptVars

\* time.sleep(2)
WaitSleep ==
    /\ op = "poll" /\ impl = "simple" /\ pc = "sleep"
    /\ log' = Append(log, Slept)
    /\ clock' = clock + SleepSecs
    /\ pc' = "loop"
    /\ UNCHANGED <<op, impl, result, reason, attempt, max_attempts, show_progress,
                   start_time, max_wait, task_id_arg, uuid, file, dir_made, pending>>
    /\ UNCHANGED loadVars
    /\ UNCHANGED pureVars
    /\ UNCHANGED scriptVars

\* the while condition is false
WaitTimeout ==
    /\ op = "poll" /\ impl = "simple" /\ pc = "loop"
    /\ ~StillWaiting(clock, start_time, max_wait)
    /\ Finish(WaitTimeoutResult)
    /\ UNCHANGED <<op, impl, log, attempt, max_attempts, show_progress, clock,
                   start_time, max_wait, task_id_arg, uuid, file, dir_made, pending>>
    /\ UNCHANGED loadVars
    /\ UNCHANGED pureVars
    /\ UNCHANGED scriptVars

\* enhanced download_export: Path(output_dir).mkdir(parents=True, exist_ok=True)
DownloadMkdir ==
    /\ op = "download" /\ pc = "mkdir"
    /\ dir_made' = TRUE
    /\ pc' = "fetch"
    /\ UNCHANGED <<op, impl, log, result, reason, attempt, max_attempts, show_progress,
                   clock, start_time, max_wait, task_id_arg, uuid, file, pending>>
    /\ UNCHANGED loadVars
    /\ UNCHANGED pureVars
    /\ UNCHANGED scriptVars

\* requests.get(url, stream=True) and the test of the status
DownloadFetch ==
    /\ op = "download" /\ pc = "fetch"
    /\ \E r \in DownloadResponses :
        LET o == DownloadHandle(impl, r.status) IN
        /\ log' = Append(log, Get(Answer(r.status)))
        /\ IF o.kind = "open"
           THEN /\ pc' = "open"
                /\ pending' = r.chunks
                /\ UNCHANGED <<result, reason>>
           ELSE /\ Finish(o)
                /\ UNCHANGED pending
    /\ UNCHANGED <<op, impl, attempt, max_attempts, show_progress, clock, start_time,
                   max_wait, task_id_arg, uuid, file, dir_made>>
    /\ UNCHANGED loadVars
    /\ UNCHANGED pureVars
    /\ UNCHANGED scriptVars

\* open(path, 'wb'); download_file creates the exports directory first
DownloadOpen ==
    /\ op = "download" /\ pc = "open"
    /\ file' = [exists |-> TRUE, content |-> <<>>]
    /\ dir_made' = (dir_made \/ impl = "simple")
    /\ pc' = "write"
    /\ UNCHANGED <<op, impl, log, result, reason, attempt, max_attempts, show_progress,
                   clock, start_time, max_wait, task_id_arg, uuid, pending>>
    /\ UNCHANGED loadVars
    /\ UNCHANGED pureVars
    /\ UNCHANGED scriptVars

\* f.write(chunk) for the next chunk of iter_content
DownloadWrite ==
    /\ op = "download" /\ pc = "write"
    /\ pending # <<>>
    /\ file' = [file EXCEPT !.content = Append(@, Head(pending))]
    /\ pending' = Tail(pending)
    /\ UNCHANGED <<op, impl, pc, log, result, reason, attempt, max_attempts,
                   show_progress, clock, start_time, max_wait, task_id_arg, uuid, dir_made>>
    /\ UNCHANGED loadVars
    /\ UNCHANGED pureVars
    /\ UNCHANGED scriptVars

\* the end of the with block, the size report and the return
DownloadFinish ==
    /\ op = "download" /\ pc = "write"
    /\ pending = <<>>
    /\ Finish(DownloadResult(impl))
    /\ UNCHANGED <<op, impl, log, attempt, max_attempts, show_progress, clock,
                   start_time, max_wait, task_id_arg, uuid, file, dir_made, pending>>
    /\ UNCHANGED loadVars
    /\ UNCHANGED pureVars
    /\ UNCHANGED scriptVars

Next ==
    \/ CreateExportTask
    \/ PollFetch
    \/ PollSleep
    \/ PollTimeout
    \/ WaitFetch
    \/ WaitSleep
    \/ WaitTimeout
    \/ DownloadMkdir
    \/ DownloadFetch
    \/ DownloadOpen
    \/ DownloadWrite
    \/ DownloadFinish

Spec == Init /\ [][Next]_vars

\* A call is one sequential process: whenever it has a next step, it takes
\* it (a status fetch returns, a sleep ends).
SpecLive == Init /\ [][Next]_vars /\ WF_vars(Next)

(***************************************************************************)
(* Properties of the export lifecycle                                      *)
(***************************************************************************)
IsGet(e) == e.what = "get"

\* the responses of the status fetches made so far, in order
FetchSeq == SelectSeq(log, IsGet)

Polling == op = "poll"

\* HTTP 304, or HTTP 200 with a currentState other than completed / failed
NonTerminal(r) ==
    \/ r.status = HTTP_NOT_MODIFIED
    \/ r.status = HTTP_OK /\ r.body \in {"doc", "nodata"} /\ r.state \notin {"completed", "failed"}

IsCompleted(r) == r.status = HTTP_OK /\ r.body = "doc" /\ r.state = "completed"
IsFailed(r) == r.status = HTTP_OK /\ r.body = "doc" /\ r.state = "failed"
CarriesArtifact(r) == r.href = "url" /\ r.fname = "name"
UnexpectedStatus(r) == r.status \notin {HTTP_OK, HTTP_NOT_MODIFIED, 0, -1}

FailureResults == {PyNone, PyNonePair, PyFalse}

\* C1: in poll_export_status (both exporters), when the k-th status fetch is
\* the first to answer 200 'completed' (carrying exportHref and
\* exportFilename) and every earlier fetch was 304 or 200 with a non-terminal
\* state, the call has returned the task data of that k-th response after
\* exactly k fetches (k <= max_attempts), and nothing (no fetch, no sleep)
\* follows that fetch.
C1_CompletedReturnsKthTask ==
    (Polling /\ impl \in Exporters) =>
        \A k \in 1..Len(FetchSeq) :
            ( /\ IsCompleted(FetchSeq[k].resp)
              /\ CarriesArtifact(FetchSeq[k].resp)
              /\ \A j \in 1..(k - 1) : NonTerminal(FetchSeq[j].resp) )
            => /\ k = Len(FetchSeq)
               /\ k <= max_attempts
               /\ log[Len(log)] = FetchSeq[k]
               /\ pc = "done"
               /\ result = TaskData(FetchSeq[k].resp)

C1_Witness ==
    /\ Polling /\ impl = "basic" /\ pc = "done"
    /\ Len(FetchSeq) = 3
    /\ FetchSeq[1].resp.status = HTTP_NOT_MODIFIED
    /\ FetchSeq[2].resp.state = "processing"
    /\ result = TaskData(FetchSeq[3].resp)
    /\ CarriesArtifact(result.data)

Max(a, b) == IF a >= b THEN a ELSE b

\* C2: in poll_export_status, when each of the first max_attempts fetches is
\* non-terminal, exactly max_attempts fetches are made, no sleep follows the
\* last one, and the only way the call ends is the timed-out result (None);
\* conversely the timed-out result is only returned after exactly
\* max_attempts non-terminal fetches.
C2_TimeoutAfterExactlyMaxAttempts ==
    (Polling /\ impl \in Exporters) =>
        /\ ( /\ max_attempts >= 1
             /\ Len(FetchSeq) >= max_attempts
             /\ \A j \in 1..max_attempts : NonTerminal(FetchSeq[j].resp) )
           => /\ Len(FetchSeq) = max_attempts
              /\ log[Len(log)].what = "get"
              /\ pc \in {"loop", "done"}
              /\ ~ENABLED PollFetch
              /\ pc = "done" => (reason = "timed_out" /\ result = PyNone)
        /\ reason = "timed_out"
           => /\ pc = "done" /\ result = PyNone
              /\ Len(FetchSeq) = Max(max_attempts, 0)
              /\ \A j \in 1..Len(FetchSeq) : NonTerminal(FetchSeq[j].resp)

C2_Witness ==
    /\ Polling /\ impl = "enhanced" /\ pc = "done" /\ reason = "timed_out"
    /\ max_attempts = MaxAttempts
    /\ Len(FetchSeq) = MaxAttempts
    /\ Cardinality(Sleeps(log)) = MaxAttempts - 1

\* C3: a status fetch answered 200 with currentState 'failed' is the last
\* thing the poll does (no later fetch, no later sleep) and the call has
\* returned a failure result, in all three implementations.
C3_FailedReturnsImmediately ==
    Polling =>
        \A i \in 1..Len(log) :
            (IsGet(log[i]) /\ IsFailed(log[i].resp))
            => /\ i = Len(log)
               /\ pc = "done"
               /\ reason = "failed"
               /\ result = (IF impl = "simple" THEN PyNonePair ELSE PyNone)

C3_Witness ==
    /\ Polling /\ impl = "simple" /\ pc = "done" /\ reason = "failed"
    /\ Len(FetchSeq) = 2
    /\ StillWaiting(clock, start_time, max_wait)

\* C4: in every poll implementation a status fetch answered with an HTTP
\* status other than 200 and 304 is the last fetch of the call, which has
\* returned a failure result.
C4_UnexpectedStatusEndsPolling ==
    Polling =>
        \A i \in 1..Len(log) :
            (IsGet(log[i]) /\ UnexpectedStatus(log[i].resp))
            => /\ i = Len(log)
               /\ pc = "done"
               /\ result \in FailureResults

\* C5: the value returned by polling tells the three terminal failures apart:
\* what is returned for a server-reported 'failed' differs from what is
\* returned for an unexpected HTTP status and from what is returned on
\* attempt exhaustion, and these two differ from each other.
TimedOutValue(i) == IF i = "simple" THEN WaitTimeoutResult.value ELSE PollTimeoutResult.value
TransportErrorValue(i) == PollHandle(i, Answer(500), TRUE, TRUE).value

C5_FailuresDistinguishable ==
    (Polling /\ pc = "done") =>
        /\ reason = "failed" => result # TimedOutValue(impl)
        /\ (reason = "failed" /\ impl \in Exporters) => result # TransportErrorValue(impl)
        /\ reason = "transport_error" => result # TimedOutValue(impl)

\* C6: task creation sends exactly one creation request and, whenever the
\* server answers, returns the task id if the status is 201 and None for
\* every other status.
C6_TaskIdIffCreated ==
    (op = "create" /\ pc \in {"done", "raised"} /\ log[Len(log)].resp.status # 0) =>
        /\ Cardinality(Posts(log)) = 1
        /\ Len(log) = 1
        /\ log[1].resp.status = HTTP_CREATED
             => result = PyStr(TaskId(impl, task_id_arg, uuid))
        /\ log[1].resp.status # HTTP_CREATED => result = PyNone

\* C7: when the artifact fetch is answered with a status other than 200 the
\* download has returned failure after that single fetch and the destination
\* file is untouched (neither created nor truncated nor written); the file is
\* opened for writing only after a 200 answer has been observed.
FileUntouched == file \in {NoFile, OldFile}

C7_NoWriteWithoutOk ==
    op = "download" =>
        /\ \A i \in 1..Len(log) :
            (IsGet(log[i]) /\ log[i].resp.status \notin {HTTP_OK, 0})
            => /\ Len(log) = 1
               /\ pc = "done"
               /\ reason = "download_failed"
               /\ result = (IF impl = "basic" THEN PyFalse ELSE PyNone)
               /\ FileUntouched
               /\ pending = <<>>
        /\ (~FileUntouched \/ pc \in {"open", "write"})
            => \E i \in 1..Len(log) : IsGet(log[i]) /\ log[i].resp.status = HTTP_OK

C7_Witness ==
    /\ op = "download" /\ impl = "enhanced" /\ pc = "done"
    /\ reason = "download_failed"
    /\ file = OldFile
    /\ dir_made

(***************************************************************************)
(* Event detail documents and the heat listing of generate_scoreboard_html *)
(* and show_event_details.  An attribute that may be missing is a record   *)
(* [has, n].                                                               *)
(***************************************************************************)
Missing == [has |-> FALSE, n |-> 0]
Given(n) == [has |-> TRUE, n |-> n]
HeatNumbers == {Missing, Given(1), Given(2)}
LaneNumbers == {Missing, Given(1), Given(2)}

\* the resources of an included list: eventRecords (r1 with any heat and
\* lane, r2 with no heat or heat 1 and no lane or lane 1), and a resource of
\* another type
IncludedItems ==
    {[type |-> "eventRecord", id |-> "r1", heat |-> h, lane |-> l] :
        h \in HeatNumbers, l \in LaneNumbers}
    \cup {[type |-> "eventRecord", id |-> "r2", heat |-> h, lane |-> l] :
        h \in {Missing, Given(1)}, l \in {Missing, Given(1)}}
    \cup {[type |-> "heat", id |-> "h1", heat |-> Missing, lane |-> Missing]}

DetailDoc(i, xs) == [kind |-> "detail", ok |-> TRUE, items |-> xs, id |-> i]
UnparsableDetail == [kind |-> "detail", ok |-> FALSE, items |-> <<>>, id |-> ""]

\* the detail documents a loader may read next, within the bounds; ids are
\* the events they may be about
NextDetailDocs(ids, ds) ==
    IF Len(ds) >= MaxDocs THEN {}
    ELSE {UnparsableDetail}
         \cup {DetailDoc(i, xs) : i \in ids,
                                  xs \in SeqsUpTo(IncludedItems, MaxRecords - ItemCount(ds))}

\* event_records[item_id] = item: a dict keeps the position of the first
\* assignment of a key and the value of the last
RECURSIVE PutRecord(_, _)
PutRecord(recs, item) ==
    IF recs = <<>> THEN <<item>>
    ELSE IF Head(recs).id = item.id THEN <<item>> \o Tail(recs)
    ELSE <<Head(recs)>> \o PutRecord(Tail(recs), item)

RECURSIVE EventRecordsOf(_)
EventRecordsOf(included) ==
    IF included = <<>> THEN <<>>
    ELSE LET before == EventRecordsOf(SubSeq(included, 1, Len(included) - 1))
             item == included[Len(included)]
         IN  IF item.type = "eventRecord" THEN PutRecord(before, item) ELSE before

\* records_by_heat: the buckets in order of creation
RECURSIVE PutInBucket(_, _)
PutInBucket(buckets, rec) ==
    IF buckets = <<>> THEN <<[key |-> rec.heat, records |-> <<rec>>]>>
    ELSE IF Head(buckets).key = rec.heat
         THEN <<[Head(buckets) EXCEPT !.records = Append(@, rec)]>> \o Tail(buckets)
         ELSE <<Head(buckets)>> \o PutInBucket(Tail(buckets), rec)

RECURSIVE GroupByHeat(_)
GroupByHeat(recs) ==
    IF recs = <<>> THEN <<>>
    ELSE PutInBucket(GroupByHeat(SubSeq(recs, 1, Len(recs) - 1)), recs[Len(recs)])

\* sorted(records_by_heat.keys()) compares None with an int, a TypeError,
\* as soon as both kinds of key are present
HeatKeysRaise(buckets) ==
    /\ \E i \in 1..Len(buckets) : ~buckets[i].key.has
    /\ \E i \in 1..Len(buckets) : buckets[i].key.has

RECURSIVE InsertBucket(_, _)
InsertBucket(sorted, b) ==
    IF sorted = <<>> THEN <<b>>
    ELSE IF Head(sorted).key.n <= b.key.n
         THEN <<Head(sorted)>> \o InsertBucket(Tail(sorted), b)
         ELSE <<b>> \o sorted

RECURSIVE SortBuckets(_)
SortBuckets(buckets) ==
    IF buckets = <<>> THEN <<>>
    ELSE InsertBucket(SortBuckets(SubSeq(buckets, 1, Len(buckets) - 1)), buckets[Len(buckets)])

LaneKey_Default99(r) == IF r.lane.has THEN r.lane.n ELSE 99

\* r.get("attributes", {}).get("laneNumber", 0)
LaneKey(r) == IF r.lane.has THEN r.lane.n ELSE 0

\* sorted(records, key=...) is stable
RECURSIVE InsertByLane(_, _)
InsertByLane(sorted, r) ==
    IF sorted = <<>> THEN <<r>>
    ELSE IF LaneKey(Head(sorted)) <= LaneKey(r)
         THEN <<Head(sorted)>> \o InsertByLane(Tail(sorted), r)
         ELSE <<r>> \o sorted

RECURSIVE SortByLane(_)
SortByLane(recs) ==
    IF recs = <<>> THEN <<>>
    ELSE InsertByLane(SortByLane(SubSeq(recs, 1, Len(recs) - 1)), recs[Len(recs)])

\* the heats of one event, in display order, each with its records in
\* display order
HeatsOf(included) ==
    LET sorted == SortBuckets(GroupByHeat(EventRecordsOf(included)))
    IN  [i \in 1..Len(sorted) |-> [sorted[i] EXCEPT !.records = SortByLane(@)]]

RenderRaises(included) == HeatKeysRaise(GroupByHeat(EventRecordsOf(included)))

Detailed(i, included) == [id |-> i, status |-> "details", heats |-> HeatsOf(included)]
NoDetails(i) == [id |-> i, status |-> "no_details", heats |-> <<>>]
Failed(i) == [id |-> i, status |-> "error", heats |-> <<>>]
Unreadable == [id |-> "", status |-> "unreadable", heats |-> <<>>]

\* has_details = bool(event_details): load_event_details returns the
\* matching document's data with an "included" key added, a non-empty dict,
\* or {} when no document matches
HasDetails(found, included) == found

(***************************************************************************)
(* The cache loaders                                                       *)
(***************************************************************************)
EventLoaders == {"load_all_events", "load_all_events_from_cache"}
DetailLoaders == {"generate_scoreboard_html", "show_event_details"}
Loaders == EventLoaders \cup {"load_all_events_from_api", "load_athletes"} \cup DetailLoaders

ExportIdle ==
    /\ op = "none"
    /\ impl = "basic"
    /\ pc = "idle"
    /\ log = <<>>
    /\ result = Pending
    /\ reason = ""
    /\ attempt = 0
    /\ max_attempts = 0
    /\ show_progress = FALSE
    /\ clock = 0
    /\ start_time = 0
    /\ max_wait = 0
    /\ task_id_arg = ""
    /\ uuid = ""
    /\ file = NoFile
    /\ dir_made = FALSE
    /\ pending = <<>>

InitLoad ==
    /\ loader \in Loaders
    /\ lpc = IF loader \in EventLoaders THEN "lists"
             ELSE IF loader = "load_all_events_from_api" THEN "fetch"
             ELSE IF loader = "load_athletes" THEN "athletes"
             ELSE "details"
    /\ docs = <<>>
    /\ all_events = <<>>
    /\ events_out = <<>>
    /\ athletes = EmptyDict
    /\ event_id = (IF loader = "generate_scoreboard_html" THEN "E1" ELSE "")
    /\ view = <<>>
    /\ ExportIdle
    /\ PureIdle
    /\ ScriptIdle

ExtendEvents_ForgetsOnError(evs, d) == IF d.ok THEN evs \o d.items ELSE <<>>

\* all_events.extend(...) of a file that parses; a file that does not is
\* left out by the except clause
ExtendEvents(evs, d) == IF d.ok THEN evs \o d.items ELSE evs

\* one events-list file: json.load, all_events.extend(data)
LoadEventsFile ==
    /\ loader \in EventLoaders /\ lpc = "lists"
    /\ \E d \in NextDocs("events", EventItems, docs) :
        /\ docs' = Append(docs, d)
        /\ all_events' = ExtendEvents(all_events, d)
    /\ UNCHANGED <<loader, lpc, events_out, athletes>>
    /\ UNCHANGED <<event_id, view>>
    /\ UNCHANGED exportVars
    /\ UNCHANGED pureVars
    /\ UNCHANGED scriptVars

\* one event-nodes file: json.load, an event appended per eventNode with a
\* reference
LoadNodesFile ==
    /\ loader \in EventLoaders /\ lpc \in {"lists", "nodes"}
    /\ \E d \in NextDocs("nodes", NodeItems, docs) :
        /\ docs' = Append(docs, d)
        /\ all_events' = IF d.ok THEN all_events \o EventsOfNodes(d.items) ELSE all_events
    /\ lpc' = "nodes"
    /\ UNCHANGED <<loader, events_out, athletes>>
    /\ UNCHANGED <<event_id, view>>
    /\ UNCHANGED exportVars
    /\ UNCHANGED pureVars
    /\ UNCHANGED scriptVars

\* load_all_events_from_api: the event-nodes request, raise_for_status,
\* response.json() and the conversion of the nodes
FetchNodesFromApi ==
    /\ loader = "load_all_events_from_api" /\ lpc = "fetch"
    /\ \E d \in NextDocs("nodes", NodeItems, docs) :
        /\ docs' = Append(docs, d)
        /\ all_events' = IF d.ok THEN EventsOfNodes(d.items) ELSE all_events
        /\ lpc' = IF d.ok THEN "nodes" ELSE "raised"
    /\ UNCHANGED <<loader, events_out, athletes>>
    /\ UNCHANGED <<event_id, view>>
    /\ UNCHANGED exportVars
    /\ UNCHANGED pureVars
    /\ UNCHANGED scriptVars

\* what is sorted: the deduplicated events, or in the live loader all of them
UniqueEvents(l, evs) == IF l \in EventLoaders THEN DedupById(evs) ELSE evs

\* deduplication, sort and return
SortAndReturn ==
    /\ loader \in EventLoaders \cup {"load_all_events_from_api"}
    /\ lpc \in {"lists", "nodes"}
    /\ LET unique_events == UniqueEvents(loader, all_events) IN
        IF SortRaises(unique_events)
        THEN /\ lpc' = "raised"
             /\ UNCHANGED events_out
        ELSE /\ lpc' = "done"
             /\ events_out' = SortByEventNumber(unique_events)
    /\ UNCHANGED <<loader, docs, all_events, athletes>>
    /\ UNCHANGED <<event_id, view>>
    /\ UNCHANGED exportVars
    /\ UNCHANGED pureVars
    /\ UNCHANGED scriptVars

\* load_athletes: one athlete file
LoadAthletesFile ==
    /\ loader = "load_athletes" /\ lpc = "athletes"
    /\ \E d \in NextDocs("athletes", AthleteItems, docs) :
        /\ docs' = Append(docs, d)
        /\ athletes' = IF d.ok THEN StoreAthletes(athletes, d.items) ELSE athletes
    /\ UNCHANGED <<loader, lpc, all_events, events_out>>
    /\ UNCHANGED <<event_id, view>>
    /\ UNCHANGED exportVars
    /\ UNCHANGED pureVars
    /\ UNCHANGED scriptVars

\* load_athletes: return athletes
ReturnAthletes ==
    /\ loader = "load_athletes" /\ lpc = "athletes"
    /\ lpc' = "done"
    /\ UNCHANGED <<loader, docs, all_events, events_out, athletes>>
    /\ UNCHANGED <<event_id, view>>
    /\ UNCHANGED exportVars
    /\ UNCHANGED pureVars
    /\ UNCHANGED scriptVars

\* load_event_details: one detail file; the first parsable document whose
\* data.id is the event's id is returned
ReadDetailFile ==
    /\ loader = "generate_scoreboard_html" /\ lpc = "details"
    /\ \E d \in NextDetailDocs(EventIds, docs) :
        /\ docs' = Append(docs, d)
        /\ lpc' = IF d.ok /\ d.id = event_id THEN "found" ELSE "details"
    /\ UNCHANGED <<loader, all_events, events_out, athletes, event_id, view>>
    /\ UNCHANGED exportVars
    /\ UNCHANGED pureVars
    /\ UNCHANGED scriptVars

\* generate_scoreboard_html for one event: the event container, with the
\* 'not available' message or with the heats
RenderEvent ==
    /\ loader = "generate_scoreboard_html" /\ lpc \in {"details", "found"}
    /\ LET found == lpc = "found"
           included == IF found THEN docs[Len(docs)].items ELSE <<>>
       IN  IF ~HasDetails(found, included)
           THEN /\ view' = Append(view, NoDetails(event_id))
                /\ lpc' = "done"
           ELSE IF RenderRaises(included)
           THEN /\ lpc' = "raised"
                /\ UNCHANGED view
           ELSE /\ view' = Append(view, Detailed(event_id, included))
                /\ lpc' = "done"
    /\ UNCHANGED <<loader, docs, all_events, events_out, athletes, event_id>>
    /\ UNCHANGED exportVars
    /\ UNCHANGED pureVars
    /\ UNCHANGED scriptVars

\* what show_event_details prints for one event file: the error of a file
\* that does not parse, the heats of the event, or the header of the event
\* and the error raised while listing its heats
ShowFile(shown, d) ==
    IF ~d.ok THEN Append(shown, Unreadable)
    ELSE IF RenderRaises(d.items) THEN Append(shown, Failed(d.id))
    ELSE Append(shown, Detailed(d.id, d.items))

\* show_event_details: one iteration of the loop over the event files
ShowEventFile ==
    /\ loader = "show_event_details" /\ lpc = "details"
    /\ \E d \in NextDetailDocs({"E1"}, docs) :
        /\ docs' = Append(docs, d)
        /\ view' = ShowFile(view, d)
    /\ UNCHANGED <<loader, lpc, all_events, events_out, athletes, event_id>>
    /\ UNCHANGED exportVars
    /\ UNCHANGED pureVars
    /\ UNCHANGED scriptVars

\* show_event_details: the loop is over
ShowDone ==
    /\ loader = "show_event_details" /\ lpc = "details"
    /\ lpc' = "done"
    /\ UNCHANGED <<loader, docs, all_events, events_out, athletes, event_id, view>>
    /\ UNCHANGED exportVars
    /\ UNCHANGED pureVars
    /\ UNCHANGED scriptVars

NextLoad ==
    \/ ReadDetailFile
    \/ RenderEvent
    \/ ShowEventFile
    \/ ShowDone
    \/ LoadEventsFile
    \/ LoadNodesFile
    \/ FetchNodesFromApi
    \/ SortAndReturn
    \/ LoadAthletesFile
    \/ ReturnAthletes

SpecLoad == InitLoad /\ [][NextLoad]_vars

(***************************************************************************)
(* Properties of the loaders                                               *)
(***************************************************************************)
DefaultEventNumber == 999

\* the number an event is meant to be ordered by: its eventNumber parsed as
\* an integer, 999 when missing or non-numeric
EffectiveNumber(e) ==
    IF e.num.has /\ IsIntText(e.num.txt) THEN PyInt(e.num.txt) ELSE DefaultEventNumber

AnyEventLoader == loader \in EventLoaders \cup {"load_all_events_from_api"}

\* C8: the event loaders return the events in ascending order of the
\* integer-parsed eventNumber, an event with a missing or non-numeric
\* eventNumber being ordered as 999, and the load does not fail on such an
\* event (the only failure is a failed request of the live loader).
C8_SortedByEventNumberDefault999 ==
    AnyEventLoader =>
        /\ lpc = "raised" => (loader = "load_all_events_from_api" /\ ~docs[Len(docs)].ok)
        /\ lpc = "done" =>
            \A i, j \in 1..Len(events_out) :
                i < j => EffectiveNumber(events_out[i]) <= EffectiveNumber(events_out[j])

\* the events a document contributes to all_events
Contributed(d) ==
    IF ~d.ok THEN <<>>
    ELSE IF d.kind = "events" THEN d.items
    ELSE EventsOfNodes(d.items)

RECURSIVE SeenEvents(_)
SeenEvents(ds) == IF ds = <<>> THEN <<>> ELSE Contributed(Head(ds)) \o SeenEvents(Tail(ds))

FirstIndexOf(evs, id) == CHOOSE i \in 1..Len(evs) :
    evs[i].id = id /\ \A j \in 1..(i - 1) : evs[j].id # id

\* C9: load_all_events / load_all_events_from_cache read the events-list
\* documents before the event-node documents, and the list they return holds,
\* for every event id occurring in the documents, exactly one event, which
\* is the first one seen in reading order; nothing else is in the list.
C9_FirstSeenEventWins ==
    (loader \in EventLoaders) =>
        /\ \A i, j \in 1..Len(docs) : (docs[i].kind = "nodes" /\ docs[j].kind = "events") => j < i
        /\ lpc = "done" =>
            LET seen == SeenEvents(docs) IN
            /\ IdsOf(events_out) = IdsOf(seen)
            /\ \A id \in IdsOf(seen) :
                /\ Cardinality({i \in 1..Len(events_out) : events_out[i].id = id}) = 1
                /\ \E i \in 1..Len(events_out) : events_out[i] = seen[FirstIndexOf(seen, id)]

C9_Witness ==
    /\ loader = "load_all_events" /\ lpc = "done"
    /\ Len(docs) = 2
    /\ docs[1] = Document("events", <<[type |-> "event", id |-> "E1", num |-> Num(<<"1", "0">>),
                                       origin |-> "events"]>>)
    /\ docs[2].kind = "nodes" /\ docs[2].ok /\ Len(docs[2].items) = 2
    /\ docs[2].items[1].type = "eventNode" /\ docs[2].items[1].id = "E1"
    /\ docs[2].items[1].num = Num(<<"2">>)
    /\ docs[2].items[2].id = "E2" /\ docs[2].items[2].type = "eventNode"
    /\ Len(events_out) = 2
    /\ \E i \in 1..2 : events_out[i].id = "E1" /\ events_out[i].origin = "events"
                          /\ events_out[i].num = Num(<<"1", "0">>)

\* the athlete resources of a document that the loop stores: all of them up
\* to the first one on which it raises
RECURSIVE StoredPrefix(_)
StoredPrefix(items) ==
    IF items = <<>> \/ Head(items).broken THEN <<>>
    ELSE <<Head(items)>> \o StoredPrefix(Tail(items))

RECURSIVE ProcessedAthletes(_)
ProcessedAthletes(ds) ==
    IF ds = <<>> THEN <<>>
    ELSE (IF Head(ds).ok THEN StoredPrefix(Head(ds).items) ELSE <<>>) \o ProcessedAthletes(Tail(ds))

LastIndexOf(xs, id) == CHOOSE i \in 1..Len(xs) :
    xs[i].id = id /\ \A j \in (i + 1)..Len(xs) : xs[j].id # id

\* C10: the athlete index has exactly the ids of the athlete resources
\* processed so far as its keys, and the entry of each id is the one built
\* from the last processed occurrence of that id.
C10_AthleteLastWriteWins ==
    (loader = "load_athletes") =>
        LET processed == ProcessedAthletes(docs) IN
        /\ DOMAIN athletes = {processed[i].id : i \in 1..Len(processed)}
        /\ \A id \in DOMAIN athletes :
            athletes[id] = AthleteEntry(processed[LastIndexOf(processed, id)].attrs)

C10_Witness ==
    /\ loader = "load_athletes" /\ lpc = "done"
    /\ Len(docs) = 2 /\ docs[1].ok /\ docs[2].ok
    /\ Len(docs[1].items) = 2 /\ Len(docs[2].items) = 1
    /\ docs[1].items[1].id = "A1" /\ docs[1].items[1].attrs.dfirst = "Ali"
    /\ docs[1].items[2].id = "A2"
    /\ docs[2].items[1].id = "A1" /\ ~docs[2].items[1].broken
    /\ docs[2].items[1].attrs.first = "Bo"
    /\ athletes["A1"].displayName = <<"Bo">>
    /\ DOMAIN athletes = {"A1", "A2"}


(***************************************************************************)
(* Properties of the heat listings                                         *)
(***************************************************************************)
\* the included list that the k-th entry of the view was rendered from
IncludedOf(k) ==
    IF loader = "generate_scoreboard_html" THEN docs[Len(docs)].items
    ELSE docs[k].items

LaneOrZero(r) == IF r.lane.has THEN r.lane.n ELSE 0

FirstAppearance(included, id) == CHOOSE i \in 1..Len(included) :
    /\ included[i].type = "eventRecord" /\ included[i].id = id
    /\ \A j \in 1..(i - 1) : ~(included[j].type = "eventRecord" /\ included[j].id = id)

DetailedViews == {k \in 1..Len(view) : view[k].status = "details"}

\* C11: in every heat of every event rendered with details, the records are
\* in ascending laneNumber, a missing lane counting as 0, and records with
\* equal lanes are in the order in which their ids first appear in included.
C11_HeatRecordsStablyByLane ==
    (loader \in DetailLoaders) =>
        \A k \in DetailedViews : \A h \in 1..Len(view[k].heats) :
            LET rs == view[k].heats[h].records IN
            \A i, j \in 1..Len(rs) : i < j =>
                /\ LaneOrZero(rs[i]) <= LaneOrZero(rs[j])
                /\ LaneOrZero(rs[i]) = LaneOrZero(rs[j]) =>
                       FirstAppearance(IncludedOf(k), rs[i].id)
                           < FirstAppearance(IncludedOf(k), rs[j].id)

\* a heat of two records whose order the sort reversed: the record without
\* a lane is listed first, though it comes second in included
C11_Witness ==
    /\ loader \in DetailLoaders /\ lpc = "done"
    /\ \E k \in DetailedViews : \E h \in 1..Len(view[k].heats) :
        LET rs == view[k].heats[h].records IN
        /\ Len(rs) = 2
        /\ ~rs[1].lane.has /\ rs[2].lane.has
        /\ FirstAppearance(IncludedOf(k), rs[2].id) < FirstAppearance(IncludedOf(k), rs[1].id)


\* generate_scoreboard_html has gone through its event
Rendered == loader = "generate_scoreboard_html" /\ lpc \in {"done", "raised"}

\* the detail document that load_event_details returned for the event, if any
MatchingDoc == Len(docs) > 0 /\ docs[Len(docs)].ok /\ docs[Len(docs)].id = event_id

RecordIdsIn(included) ==
    {included[i].id : i \in {j \in 1..Len(included) : included[j].type = "eventRecord"}}

\* C14: an event with no resolvable eventRecord, because no detail document
\* matches its id or because the matching document's included list holds no
\* eventRecord, is reported as 'details not available' and never as a detailed
\* event with no heats.
C14_NoRecordsMeansNoDetails ==
    (Rendered /\ (MatchingDoc => RecordIdsIn(docs[Len(docs)].items) = {})) =>
        /\ lpc = "done"
        /\ view = <<NoDetails(event_id)>>

LastAppearance(included, id) == CHOOSE i \in 1..Len(included) :
    /\ included[i].type = "eventRecord" /\ included[i].id = id
    /\ \A j \in (i + 1)..Len(included) : ~(included[j].type = "eventRecord" /\ included[j].id = id)

\* the entries of the view that stand for a parsable detail document
EventViews == {k \in 1..Len(view) : view[k].status \in {"details", "error"}}

\* C15: every eventRecord of a rendered detail document is in exactly one
\* heat bucket, the one keyed by its heatNumber (the null key when it has
\* none), and the heats are produced, without failure, also when the event
\* has records with a heatNumber and records without one.
C15_HeatBucketsPartitionRecords ==
    /\ (Rendered /\ MatchingDoc) => lpc = "done"
    /\ (loader \in DetailLoaders) =>
        \A k \in EventViews :
            /\ view[k].status = "details"
            /\ \A id \in RecordIdsIn(IncludedOf(k)) :
                LET heats == view[k].heats
                    places == {p \in (1..Len(heats)) \X (1..MaxRecords + 1) :
                                  /\ p[2] <= Len(heats[p[1]].records)
                                  /\ heats[p[1]].records[p[2]].id = id}
                    rec == IncludedOf(k)[LastAppearance(IncludedOf(k), id)]
                IN  /\ Cardinality(places) = 1
                    /\ \A p \in places : heats[p[1]].key = rec.heat


(***************************************************************************)
(* Documents that do not parse                                             *)
(***************************************************************************)
RECURSIVE ParsableDocs(_)
ParsableDocs(ds) ==
    IF ds = <<>> THEN <<>>
    ELSE (IF Head(ds).ok THEN <<Head(ds)>> ELSE <<>>) \o ParsableDocs(Tail(ds))

\* what the loaders build from documents that all parse
RECURSIVE EventsFrom(_)
EventsFrom(ds) ==
    IF ds = <<>> THEN <<>>
    ELSE (IF Head(ds).kind = "events" THEN Head(ds).items ELSE EventsOfNodes(Head(ds).items))
         \o EventsFrom(Tail(ds))

RECURSIVE AthletesFrom(_)
AthletesFrom(ds) ==
    IF ds = <<>> THEN EmptyDict
    ELSE StoreAthletes(AthletesFrom(SubSeq(ds, 1, Len(ds) - 1)), ds[Len(ds)].items)

RECURSIVE DetailsFrom(_)
DetailsFrom(ds) ==
    IF ds = <<>> THEN <<>>
    ELSE IF Head(ds).id = event_id THEN <<Head(ds)>>
    ELSE DetailsFrom(Tail(ds))

RECURSIVE ShownFrom(_)
ShownFrom(ds) ==
    IF ds = <<>> THEN <<>>
    ELSE ShowFile(ShownFrom(SubSeq(ds, 1, Len(ds) - 1)), ds[Len(ds)])

RECURSIVE EventEntries(_)
EventEntries(shown) ==
    IF shown = <<>> THEN <<>>
    ELSE (IF Head(shown).status = "unreadable" THEN <<>> ELSE <<Head(shown)>>)
         \o EventEntries(Tail(shown))

\* C16: a document that fails to parse is skipped and nothing else is: the
\* athlete index of load_athletes, the event list of load_all_events, the
\* details returned by load_event_details and the events listed by
\* show_event_details are the ones built from the parsable documents alone.
C16_UnparsableDocumentsSkipped ==
    LET rest == ParsableDocs(docs) IN
    /\ (loader = "load_athletes") => athletes = AthletesFrom(rest)
    /\ (loader \in EventLoaders) =>
        /\ all_events = EventsFrom(rest)
        /\ (lpc = "done") => events_out = SortByEventNumber(DedupById(EventsFrom(rest)))
        /\ (lpc = "raised") => SortRaises(DedupById(EventsFrom(rest)))
    /\ (loader = "generate_scoreboard_html") =>
        /\ (lpc = "found") => DetailsFrom(rest) = <<docs[Len(docs)]>>
        /\ (lpc = "details") => DetailsFrom(rest) = <<>>
        /\ (lpc = "done") =>
               view = IF DetailsFrom(rest) = <<>> THEN <<NoDetails(event_id)>>
                      ELSE <<Detailed(event_id, DetailsFrom(rest)[1].items)>>
    /\ (loader = "show_event_details") => EventEntries(view) = ShownFrom(rest)

\* load_all_events returned the events of the second events file, the first
\* one being unparsable
C16_Witness ==
    /\ loader = "load_all_events" /\ lpc = "done"
    /\ Len(docs) = 2 /\ ~docs[1].ok /\ docs[2].ok /\ docs[2].kind = "events"
    /\ Len(docs[2].items) = 2
    /\ Len(events_out) = 2


(***************************************************************************)
(* The athletes of one eventRecord, as generate_scoreboard_html and        *)
(* show_event_details list them.  Texts are sequences of pieces.           *)
(***************************************************************************)
MaxRelayRefs == 3
IdSliceLen == 8
DefaultRelayPosition == 99

Renderers == {"generate_scoreboard_html", "show_event_details"}
PosIds == {"p1", "p2", "p3"}
LongId == "a9f3c2e7b4"
RefAthleteIds == {"A1", LongId}

\* the characters of an athlete id
Chars(id) ==
    IF id = LongId THEN <<"a", "9", "f", "3", "c", "2", "e", "7", "b", "4">>
    ELSE <<"A", "1">>

\* s[:n]
Slice(s, n) == SubSeq(s, 1, IF Len(s) < n THEN Len(s) ELSE n)

\* a relayPositionRecord: relayPosition, and the id of relationships.athlete.data
\* ("" when the record has no athlete reference)
RelayPositionRecords ==
    {[pos |-> p, athlete |-> a] : p \in {Missing, Given(1), Given(2), Given(3)}, a \in {"", "A1"}}
RelayPositionMaps == UNION {[S -> RelayPositionRecords] : S \in SUBSET PosIds}

\* an eventRecord: the ids of relationships.relayPositionRecords.data, in
\* order, and the id of relationships.athlete.data ("" when there is none)
RelayRecords == {[refs |-> r, athlete |-> ""] : r \in SeqsUpTo(PosIds, MaxRelayRefs)}
IndividualRecords == {[refs |-> <<>>, athlete |-> a] : a \in {""} \cup RefAthleteIds}

AthleteIndexes == {EmptyDict, DictSet(EmptyDict, "A1", AthleteEntry([first |-> "Al", dfirst |-> "Ali", last |-> "Lee"]))}

\* athlete_info.get("displayName", default)
NameOf(idx, id, default) == IF id \in DOMAIN idx THEN idx[id].displayName ELSE default

UnresolvedName_AsUnassigned(r, id) == <<"No athlete assigned">>

\* the default of show_event_details, f"Athlete {athlete_id[:8]}", and of
\* generate_scoreboard_html
UnresolvedName(r, id) ==
    IF r = "show_event_details" THEN <<"Athlete ">> \o Slice(Chars(id), IdSliceLen)
    ELSE <<"Unknown">>

\* the name shown when the record has no athlete reference
UnassignedName(r) ==
    IF r = "show_event_details" THEN <<"No athlete assigned">> ELSE <<"No athlete">>

IndividualDisplay(r, rec, idx) ==
    [kind |-> "individual",
     name |-> IF rec.athlete # "" THEN NameOf(idx, rec.athlete, UnresolvedName(r, rec.athlete))
              ELSE UnassignedName(r),
     swimmers |-> <<>>]

\* relay_positions.get(id, {}).get("attributes", {}).get("relayPosition", 99)
RelayKey(positions, id) ==
    IF id \in DOMAIN positions /\ positions[id].pos.has THEN positions[id].pos.n
    ELSE DefaultRelayPosition

RECURSIVE InsertRef(_, _, _)
InsertRef(sorted, id, positions) ==
    IF sorted = <<>> THEN <<id>>
    ELSE IF RelayKey(positions, Head(sorted)) <= RelayKey(positions, id)
         THEN <<Head(sorted)>> \o InsertRef(Tail(sorted), id, positions)
         ELSE <<id>> \o sorted

RECURSIVE SortRefs(_, _)
SortRefs(refs, positions) ==
    IF refs = <<>> THEN <<>>
    ELSE InsertRef(SortRefs(SubSeq(refs, 1, Len(refs) - 1), positions), refs[Len(refs)], positions)

\* the order in which a renderer goes through the relay position references
RefOrder(r, refs, positions) ==
    IF r = "generate_scoreboard_html" THEN SortRefs(refs, positions) ELSE refs

\* the loop over the references: one swimmer per reference that is in
\* relay_positions and has an athlete
RECURSIVE Swimmers(_, _, _, _)
Swimmers(r, refs, positions, idx) ==
    IF refs = <<>> THEN <<>>
    ELSE LET id == Head(refs)
             rest == Swimmers(r, Tail(refs), positions, idx)
         IN  IF id \in DOMAIN positions /\ positions[id].athlete # ""
             THEN <<[pos |-> positions[id].pos,
                     name |-> NameOf(idx, positions[id].athlete,
                                     UnresolvedName(r, positions[id].athlete))]>> \o rest
             ELSE rest

NoSwimmers(r) ==
    IF r = "show_event_details" THEN <<"No swimmers assigned">> ELSE <<"No swimmers">>

RelayDisplay(r, rec, positions, idx) ==
    LET swimmers == Swimmers(r, RefOrder(r, rec.refs, positions), positions, idx)
    IN  [kind |-> "relay",
         name |-> IF swimmers = <<>> THEN NoSwimmers(r) ELSE <<>>,
         swimmers |-> swimmers]

InitRecord ==
    /\ renderer \in Renderers
    /\ event_type \in {"relay", "individual"}
    /\ record \in (IF event_type = "relay" THEN RelayRecords ELSE IndividualRecords)
    /\ relay_positions \in (IF event_type = "relay" THEN RelayPositionMaps ELSE {EmptyDict})
    /\ athlete_display = NotShown
    /\ loader = "none" /\ lpc = "idle" /\ docs = <<>> /\ all_events = <<>>
    /\ events_out = <<>> /\ event_id = "" /\ view = <<>>
    /\ athletes \in AthleteIndexes
    /\ ExportIdle
    /\ ScriptIdle
    /\ FormatIdle
    /\ InferIdle

\* the athlete display of a relay record
ListRelaySwimmers ==
    /\ renderer \in Renderers /\ event_type = "relay" /\ athlete_display = NotShown
    /\ athlete_display' = RelayDisplay(renderer, record, relay_positions, athletes)
    /\ UNCHANGED <<renderer, event_type, record, relay_positions>>
    /\ UNCHANGED <<formatVars, inferVars>>
    /\ UNCHANGED exportVars
    /\ UNCHANGED scriptVars
    /\ UNCHANGED loadVars

\* the athlete display of an individual record
ShowAthlete ==
    /\ renderer \in Renderers /\ event_type = "individual" /\ athlete_display = NotShown
    /\ athlete_display' = IndividualDisplay(renderer, record, athletes)
    /\ UNCHANGED <<renderer, event_type, record, relay_positions>>
    /\ UNCHANGED <<formatVars, inferVars>>
    /\ UNCHANGED exportVars
    /\ UNCHANGED scriptVars
    /\ UNCHANGED loadVars

NextRecord ==
    \/ ListRelaySwimmers
    \/ ShowAthlete

SpecRecord == InitRecord /\ [][NextRecord]_vars


(***************************************************************************)
(* Properties of the athletes listed for a record                          *)
(***************************************************************************)
RelayListed == event_type = "relay" /\ athlete_display.kind = "relay"

\* C12: the swimmers of a relay record are listed in ascending relayPosition,
\* whatever the order of the references in the record, by both renderers.
C12_RelaySwimmersByPosition ==
    RelayListed =>
        LET sw == athlete_display.swimmers IN
        \A i, j \in 1..Len(sw) :
            (i < j /\ sw[i].pos.has /\ sw[j].pos.has) => sw[i].pos.n <= sw[j].pos.n

\* an individual record whose athlete reference names an id that the athlete
\* index does not have, and that has been listed
UnresolvedAthleteShown ==
    /\ event_type = "individual" /\ athlete_display.kind = "individual"
    /\ record.athlete # "" /\ record.athlete \notin DOMAIN athletes

\* C13 as stated: an individual record whose athlete reference names an id
\* that is not in the athlete index is shown with the display name
\* "No athlete assigned".
C13_UnresolvedShownAsUnassigned ==
    UnresolvedAthleteShown => athlete_display.name = <<"No athlete assigned">>

\* C13, amended: such a record is listed without an error, with the name
\* "Athlete " followed by the first 8 characters of the id by
\* show_event_details and with the name "Unknown" by generate_scoreboard_html;
\* "No athlete assigned" (show_event_details) and "No athlete"
\* (generate_scoreboard_html) are the names of a record with no athlete
\* reference, and of no other record.
C13_UnresolvedShownAsPlaceholder ==
    /\ UnresolvedAthleteShown =>
        LET name == athlete_display.name
            id == Chars(record.athlete)
            n == IF Len(id) < 8 THEN Len(id) ELSE 8
        IN  IF renderer = "show_event_details"
            THEN /\ Len(name) = n + 1
                 /\ name[1] = "Athlete "
                 /\ \A i \in 1..n : name[i + 1] = id[i]
            ELSE name = <<"Unknown">>
    /\ (event_type = "individual" /\ athlete_display.kind = "individual") =>
        (athlete_display.name \in {<<"No athlete assigned">>, <<"No athlete">>}
            <=> record.athlete = "")

\* show_event_details has listed a record whose athlete id, of 10
\* characters, is not in the index
C13_Witness ==
    /\ UnresolvedAthleteShown
    /\ renderer = "show_event_details"
    /\ record.athlete = LongId
    /\ Len(athlete_display.name) = 9


(***************************************************************************)
(* Time formatting.  A time is None (NoTime) or an integer of hundredths   *)
(* of a second; a string is the sequence of its characters.                *)
(***************************************************************************)
MaxTime == 6599
HundredthsPerMinute == 6000
HundredthsPerSecond == 100
PaddedWidth == 5

\* times beyond MaxTime: the examples of the documentation and the first
\* times of 10 and of 100 minutes
FarTimes == {65321, 59999, 60000, 599999, 600000}
TimeInts == {NoTime} \cup {Given(t) : t \in (0..MaxTime) \cup FarTimes}

DigitChar(d) ==
    CASE d = 0 -> "0" [] d = 1 -> "1" [] d = 2 -> "2" [] d = 3 -> "3" [] d = 4 -> "4"
      [] d = 5 -> "5" [] d = 6 -> "6" [] d = 7 -> "7" [] d = 8 -> "8" [] d = 9 -> "9"

\* str(n) of a natural number
RECURSIVE Decimal(_)
Decimal(n) == IF n < 10 THEN <<DigitChar(n)>> ELSE Decimal(n \div 10) \o <<DigitChar(n % 10)>>

RECURSIVE ZeroPad(_, _)
ZeroPad(s, width) == IF Len(s) >= width THEN s ELSE ZeroPad(<<"0">> \o s, width)

\* format(x, ".2f") of the float x = h / 100, h a natural number: the
\* rounding to two decimals gives h back
Fixed2(h) ==
    Decimal(h \div HundredthsPerSecond) \o <<".">>
        \o <<DigitChar((h % HundredthsPerSecond) \div 10), DigitChar(h % 10)>>

Fixed2Padded_NoPadding(h) == Fixed2(h)

\* format(x, "05.2f")
Fixed2Padded(h) == ZeroPad(Fixed2(h), PaddedWidth)

NT == <<"N", "T">>

\* generate_scoreboard.format_time
format_time(t) ==
    IF ~t.has \/ t.n = 0 THEN NT
    ELSE LET minutes == t.n \div HundredthsPerMinute
             seconds == t.n % HundredthsPerMinute
         IN  IF minutes > 0 THEN Decimal(minutes) \o <<":">> \o Fixed2Padded(seconds)
             ELSE Fixed2(seconds)

\* scoreboard_server.format_time
server_format_time(t) ==
    IF ~t.has \/ t.n = 0 THEN NT
    ELSE LET minutes == t.n \div HundredthsPerMinute
             seconds == t.n % HundredthsPerMinute
         IN  IF minutes > 0 THEN Decimal(minutes) \o <<":">> \o Fixed2Padded(seconds)
             ELSE Fixed2(seconds)

seed_time_str_SecondsOnly(seed_time) ==
    IF seed_time.has /\ seed_time.n # 0 THEN Fixed2(seed_time.n) ELSE NT

\* the seed time of show_event_details
seed_time_str(seed_time) ==
    IF seed_time.has /\ seed_time.n # 0
    THEN LET minutes == seed_time.n \div HundredthsPerMinute
             seconds == seed_time.n % HundredthsPerMinute
         IN  IF minutes > 0 THEN Decimal(minutes) \o <<":">> \o Fixed2Padded(seconds)
             ELSE Fixed2(seconds)
    ELSE NT

Formatters == {"generate_scoreboard", "scoreboard_server", "show_heat_assignments"}

InitFormat ==
    /\ time_int \in TimeInts
    /\ formatted = EmptyDict
    /\ ExportIdle
    /\ ScriptIdle
    /\ LoadIdle
    /\ RecordIdle
    /\ InferIdle

Unformatted(f) == f \notin DOMAIN formatted

\* generate_scoreboard_html formats the time
FormatTimeScoreboard ==
    /\ Unformatted("generate_scoreboard")
    /\ formatted' = DictSet(formatted, "generate_scoreboard", format_time(time_int))
    /\ UNCHANGED <<time_int, recordVars, inferVars>>
    /\ UNCHANGED exportVars
    /\ UNCHANGED scriptVars
    /\ UNCHANGED loadVars

\* the scoreboard server formats the time
FormatTimeServer ==
    /\ Unformatted("scoreboard_server")
    /\ formatted' = DictSet(formatted, "scoreboard_server", server_format_time(time_int))
    /\ UNCHANGED <<time_int, recordVars, inferVars>>
    /\ UNCHANGED exportVars
    /\ UNCHANGED scriptVars
    /\ UNCHANGED loadVars

\* show_event_details formats the time as a seed time
FormatSeedTime ==
    /\ Unformatted("show_heat_assignments")
    /\ formatted' = DictSet(formatted, "show_heat_assignments", seed_time_str(time_int))
    /\ UNCHANGED <<time_int, recordVars, inferVars>>
    /\ UNCHANGED exportVars
    /\ UNCHANGED scriptVars
    /\ UNCHANGED loadVars

NextFormat ==
    \/ FormatTimeScoreboard
    \/ FormatTimeServer
    \/ FormatSeedTime

SpecFormat == InitFormat /\ [][NextFormat]_vars

(***************************************************************************)
(* Properties of the time formatting                                       *)
(***************************************************************************)
TwoDigits(n) == <<DigitChar(n \div 10), DigitChar(n % 10)>>

\* the value of a sequence of digits
RECURSIVE NatOf(_)
NatOf(s) == IF s = <<>> THEN 0 ELSE 10 * NatOf(SubSeq(s, 1, Len(s) - 1)) + DigitVal(s[Len(s)])

IsNumeral(s) ==
    /\ s # <<>>
    /\ \A i \in 1..Len(s) : s[i] \in Digits
    /\ Len(s) > 1 => s[1] # "0"

\* the string C17 describes for a time
IsDescribedFormat(t, out) ==
    IF ~t.has \/ t.n = 0 THEN out = <<"N", "T">>
    ELSE LET m == t.n \div 6000
             r == t.n % 6000
             ss == r \div 100
             hh == r % 100
         IN  IF m > 0
             THEN /\ Len(out) > 6
                  /\ IsNumeral(SubSeq(out, 1, Len(out) - 6))
                  /\ NatOf(SubSeq(out, 1, Len(out) - 6)) = m
                  /\ SubSeq(out, Len(out) - 5, Len(out))
                         = <<":">> \o TwoDigits(ss) \o <<".">> \o TwoDigits(hh)
             ELSE out = (IF ss >= 10 THEN TwoDigits(ss) ELSE <<DigitChar(ss)>>)
                            \o <<".">> \o TwoDigits(hh)

FormatTimeImpls == {"generate_scoreboard", "scoreboard_server"}

\* C17: format_time returns "NT" for None and for 0, and for any other time
\* t, with m = t div 6000 and r = t mod 6000, "<m>:<ss>.<hh>" with the seconds
\* on two digits when m > 0 and "<s>.<hh>" with the seconds unpadded when
\* m = 0; 3000 gives "30.00", 6532 gives "1:05.32", 65321 gives "10:53.21".
C17_FormatTimeAsDescribed ==
    \A f \in FormatTimeImpls \cap DOMAIN formatted :
        /\ IsDescribedFormat(time_int, formatted[f])
        /\ time_int = Given(3000) => formatted[f] = <<"3", "0", ".", "0", "0">>
        /\ time_int = Given(6532) => formatted[f] = <<"1", ":", "0", "5", ".", "3", "2">>
        /\ time_int = Given(65321) => formatted[f] = <<"1", "0", ":", "5", "3", ".", "2", "1">>

\* both format_time functions have formatted 1:05.32
C17_Witness ==
    /\ time_int = Given(6532)
    /\ FormatTimeImpls \subseteq DOMAIN formatted
    /\ formatted["generate_scoreboard"] = <<"1", ":", "0", "5", ".", "3", "2">>

\* C18: the seed-time formatting of show_event_details and the two
\* format_time functions return the same string for the same time.
C18_FormattersAgree ==
    \A f, g \in DOMAIN formatted : formatted[f] = formatted[g]

\* the three formatters have formatted a time of more than a minute
C18_Witness ==
    /\ DOMAIN formatted = Formatters
    /\ time_int.has /\ time_int.n > 6000
    /\ formatted["show_heat_assignments"] # <<"N", "T">>


(***************************************************************************)
(* infer_type of generate_api_docs.  A JSON value is a record: t is its    *)
(* Python type, v the characters of a scalar, items the elements of a     *)
(* list.  The inferred type is a sequence of pieces.                       *)
(***************************************************************************)
MaxArrayLen == 4
InspectedItems == 3

JsonBool == [t |-> "bool", v |-> <<"t", "r", "u", "e">>, items |-> <<>>]
JsonInt(c) == [t |-> "int", v |-> <<c>>, items |-> <<>>]
JsonFloat == [t |-> "float", v |-> <<"1", ".", "5">>, items |-> <<>>]
JsonStr(cs) == [t |-> "str", v |-> cs, items |-> <<>>]
JsonDict == [t |-> "dict", v |-> <<>>, items |-> <<>>]
JsonList(xs) == [t |-> "list", v |-> <<>>, items |-> xs]

DateText == <<"2", "0", "2", "4", "-", "0", "5", "-", "0", "1">>
DateTimeText == DateText \o <<"T", "1", "0", ":", "0", "0", ":", "0", "0", "Z">>
UrlText == <<"h", "t", "t", "p", "s", ":", "/", "/", "x", ".", "t", "e", "s", "t">>

\* the elements an array is made of: scalars, an object and two arrays
JsonElements ==
    {JsonNull, JsonBool, JsonInt("1"), JsonInt("2"), JsonInt("3"), JsonFloat, JsonDict,
     JsonStr(<<"a">>), JsonStr(DateText), JsonStr(DateTimeText), JsonStr(UrlText),
     JsonList(<<>>), JsonList(<<JsonInt("1")>>)}

\* the elements, and the arrays of at most n elements
JsonValues(n) == JsonElements \cup {JsonList(xs) : xs \in SeqsUpTo(JsonElements, n)}

\* re.match of a pattern of \d ("d") and literal characters at the start of s
MatchesPrefix(s, pattern) ==
    /\ Len(s) >= Len(pattern)
    /\ \A i \in 1..Len(pattern) :
        IF pattern[i] = "d" THEN s[i] \in Digits ELSE s[i] = pattern[i]

DatePattern == <<"d", "d", "d", "d", "-", "d", "d", "-", "d", "d">>
DateTimePattern == DatePattern \o <<"T", "d", "d", ":", "d", "d", ":", "d", "d">>

\* ^\d{4}-\d{2}-\d{2}$
IsDate(s) == MatchesPrefix(s, DatePattern) /\ Len(s) = Len(DatePattern)

\* ^\d{4}-\d{2}-\d{2}T\d{2}:\d{2}:\d{2}
IsDateTime(s) == MatchesPrefix(s, DateTimePattern)

\* value.startswith("http://") or value.startswith("https://")
IsUrl(s) ==
    \/ MatchesPrefix(s, <<"h", "t", "t", "p", ":", "/", "/">>)
    \/ MatchesPrefix(s, <<"h", "t", "t", "p", "s", ":", "/", "/">>)

Inspected_All(items) == items

\* value[:3]
Inspected(items) == Slice(items, InspectedItems)

RECURSIVE infer_type(_)
infer_type(x) ==
    IF x.t = "null" THEN <<"null">>
    ELSE IF x.t = "bool" THEN <<"boolean">>
    ELSE IF x.t \in {"bool", "int"} THEN <<"integer">>
    ELSE IF x.t = "float" THEN <<"number">>
    ELSE IF x.t = "str" THEN
        IF IsDate(x.v) THEN <<"date">>
        ELSE IF IsDateTime(x.v) THEN <<"datetime">>
        ELSE IF IsUrl(x.v) THEN <<"url">>
        ELSE <<"string">>
    ELSE IF x.t = "list" THEN
        IF x.items = <<>> THEN <<"array">>
        ELSE LET first == Inspected(x.items)
                 item_types == {infer_type(first[i]) : i \in 1..Len(first)}
             IN  IF Cardinality(item_types) = 1
                 THEN <<"array<">> \o (CHOOSE ty \in item_types : TRUE) \o <<">">>
                 ELSE <<"array">>
    ELSE IF x.t = "dict" THEN <<"object">>
    ELSE <<"unknown">>

InitInfer ==
    /\ value \in JsonValues(MaxArrayLen)
    /\ inferred = <<>>
    /\ ExportIdle
    /\ ScriptIdle
    /\ LoadIdle
    /\ FormatIdle
    /\ RecordIdle

\* one call of infer_type
InferType ==
    /\ inferred = <<>>
    /\ inferred' = infer_type(value)
    /\ UNCHANGED <<value, formatVars, recordVars>>
    /\ UNCHANGED exportVars
    /\ UNCHANGED scriptVars
    /\ UNCHANGED loadVars

NextInfer == InferType

SpecInfer == InitInfer /\ [][NextInfer]_vars

(***************************************************************************)
(* Properties of infer_type                                                *)
(***************************************************************************)
ArrayInferred == value.t = "list" /\ inferred # <<>>

\* the first 3 elements of the array, or all of them when it has fewer
FirstThree == SubSeq(value.items, 1, IF Len(value.items) < 3 THEN Len(value.items) ELSE 3)

\* C19: the empty array gives "array"; a non-empty array gives "array<T>"
\* when its first 3 elements all infer to the same type T and "array" when
\* they do not, whatever the elements after the third; [1,2,3] gives
\* "array<integer>" and [1,"a"] gives "array".
C19_ArrayTypeFromFirstThree ==
    /\ ArrayInferred =>
        /\ (value.items = <<>>) => inferred = <<"array">>
        /\ (value.items # <<>>) =>
            LET T == infer_type(FirstThree[1]) IN
            IF \A i \in 1..Len(FirstThree) : infer_type(FirstThree[i]) = T
            THEN inferred = <<"array<">> \o T \o <<">">>
            ELSE inferred = <<"array">>
    /\ (value = JsonList(<<JsonInt("1"), JsonInt("2"), JsonInt("3")>>) /\ inferred # <<>>)
           => inferred = <<"array<", "integer", ">">>
    /\ (value = JsonList(<<JsonInt("1"), JsonStr(<<"a">>)>>) /\ inferred # <<>>)
           => inferred = <<"array">>

\* an array whose first three elements are integers and whose fourth is a
\* string has been inferred as an array of integers
C19_Witness ==
    /\ ArrayInferred
    /\ Len(value.items) = 4
    /\ \A i \in 1..3 : value.items[i].t = "int"
    /\ value.items[4].t = "str"
    /\ inferred = <<"array<", "integer", ">">>


(***************************************************************************)
(* Termination of polling                                                  *)
(***************************************************************************)
Ended == pc \in {"done", "raised"}

\* C20: every polling call, poll_export_status with its max_attempts and
\* wait_for_export with its max_wait, eventually ends, whatever the responses
\* of the server.
C20_PollingEnds == Polling ~> Ended

\* wait_for_export has timed out after fetching and sleeping
C20_Witness ==
    /\ Polling /\ impl = "simple" /\ max_wait = MaxWait
    /\ pc = "done" /\ reason = "timed_out"
    /\ Len(log) >= 4

\* the cap on the log never keeps a call from fetching
LogCapNotReached ==
    (Polling /\ pc = "loop"
        /\ (IF impl = "simple" THEN StillWaiting(clock, start_time, max_wait)
            ELSE HasNextAttempt(attempt, max_attempts)))
    => Len(log) < LogCap


(***************************************************************************)
(* Attempts and idle waits of poll_export_status                           *)
(***************************************************************************)
ExporterPolling == Polling /\ impl \in Exporters

\* C21: poll_export_status has made at most max(max_attempts, 0) status
\* fetches; every fetch, in particular every 304 and every 200 with a
\* non-terminal state, has used up exactly one attempt; with
\* max_attempts <= 0 no fetch is made.
C21_FetchesWithinMaxAttempts ==
    ExporterPolling =>
        /\ Len(FetchSeq) <= Max(max_attempts, 0)
        /\ attempt = Len(FetchSeq)
        /\ (max_attempts <= 0) => FetchSeq = <<>>

\* the second and last attempt has been used by a 304 after a 200 that
\* carried a non-terminal state
C21_Witness ==
    /\ ExporterPolling /\ max_attempts = 2 /\ attempt = 2
    /\ Len(FetchSeq) = 2
    /\ FetchSeq[1].resp.status = HTTP_OK /\ FetchSeq[1].resp.state = "processing"
    /\ FetchSeq[2].resp.status = HTTP_NOT_MODIFIED
    /\ pc = "loop"


\* C22: in poll_export_status fetches and idle waits alternate, starting
\* with a fetch: exactly one wait lies between two consecutive fetches, a
\* wait only follows a non-terminal fetch that was not the max_attempts-th,
\* a finished call ended on a fetch, and a call sleeps at most
\* max_attempts - 1 times.
C22_OneWaitBetweenFetches ==
    ExporterPolling =>
        /\ \A i \in 1..Len(log) :
            /\ log[i].what = (IF i % 2 = 1 THEN "get" ELSE "sleep")
            /\ (log[i] = Slept) => NonTerminal(log[i - 1].resp)
        /\ (pc = "sleep") => (log # <<>> /\ IsGet(log[Len(log)]))
        /\ (Ended /\ log # <<>>) => IsGet(log[Len(log)])
        /\ Cardinality(Sleeps(log)) + (IF pc = "sleep" THEN 1 ELSE 0)
              <= Max(max_attempts - 1, 0)

\* a call with three attempts has slept twice and made its last fetch,
\* after which it returns without sleeping
C22_Witness ==
    /\ ExporterPolling /\ max_attempts = 3
    /\ Len(FetchSeq) = 3 /\ Cardinality(Sleeps(log)) = 2
    /\ NonTerminal(FetchSeq[3].resp)
    /\ pc = "done" /\ reason = "timed_out"


(***************************************************************************)
(* Responses that carry data.attributes                                    *)
(***************************************************************************)
HasAttributes(r) == r.status = HTTP_OK /\ r.body = "doc"

\* C26: poll_export_status never raises on an HTTP 200 response whose body
\* has a data object with an attributes object, whichever attribute fields
\* are present; a completed task without exportHref or exportFilename is
\* returned as completed task data.
C26_NoRaiseOnAttributes ==
    (ExporterPolling /\ log # <<>> /\ HasAttributes(log[Len(log)].resp)) =>
        /\ pc # "raised"
        /\ IsCompleted(log[Len(log)].resp) =>
              (pc = "done" /\ result = TaskData(log[Len(log)].resp))


(***************************************************************************)
(* The result of download_export, swimtopia_export.py                      *)
(***************************************************************************)
\* C25: download_export of swimtopia_export.py, once the artifact fetch is
\* answered with HTTP 200, has written every streamed chunk when it ends and
\* ends by returning True; it returns False only when the status is not 200.
C25_BasicDownloadReturnsTrue ==
    (op = "download" /\ impl = "basic" /\ Ended /\ log # <<>>
        /\ log[1].resp.status # 0) =>
        /\ log[1].resp.status = HTTP_OK =>
              (pc = "done" /\ result = PyTrue /\ pending = <<>> /\ file.exists)
        /\ result = PyFalse => log[1].resp.status # HTTP_OK


(***************************************************************************)
(* Uniqueness of the returned events                                       *)
(***************************************************************************)
\* C30: the list returned by load_all_events, load_all_events_from_cache
\* and load_all_events_from_api holds at most one event per id.
C30_AtMostOneEventPerId ==
    (AnyEventLoader /\ lpc = "done") =>
        \A i, j \in 1..Len(events_out) :
            events_out[i].id = events_out[j].id => i = j


(***************************************************************************)
(* SwimtopiaExporter.authenticate and is_token_valid: a sequence of        *)
(* authenticate calls on one exporter, while time passes.                  *)
(***************************************************************************)
MaxCalls == 2
MaxNow == 4

\* expires_in of a token response: absent, or a number of seconds
NoExpiresIn == Never
ExpiresIn(n) == At(n)

AccessTokens == {NoToken, Token(""), Token("t1"), Token("t2")}
ExpiresIns == {NoExpiresIn, ExpiresIn(0), ExpiresIn(1), ExpiresIn(2)}

\* What the token endpoint answers: status 0 stands for a request that fails
\* without a response; a 200 body is a JSON object or not JSON at all.
TokenResponses ==
    {[status |-> HTTP_OK, body |-> "doc", token |-> t, expires_in |-> e] :
        t \in AccessTokens, e \in ExpiresIns}
    \cup {[status |-> HTTP_OK, body |-> "notjson", token |-> NoToken, expires_in |-> NoExpiresIn]}
    \cup {[status |-> s, body |-> "none", token |-> NoToken, expires_in |-> NoExpiresIn] :
            s \in {0} \cup OtherStatuses}
    \cup {[status |-> s, body |-> "doc", token |-> Token("t2"), expires_in |-> ExpiresIn(2)] :
            s \in OtherStatuses}

\* bool(x) of an optional string / number
TruthyToken(tok) == tok.has /\ tok.txt # ""
TruthyNumber(x) == x.has /\ x.n # 0

\* f'Bearer {self.access_token}'
FormatToken(tok) == IF tok.has THEN tok.txt ELSE "None"
Bearer(tok) == [has |-> TRUE, val |-> <<"Bearer ", FormatToken(tok)>>]

ExporterState(tok, exp, hdr) ==
    [access_token |-> tok, token_expires_at |-> exp, authorization |-> hdr]

\* the 200 branch: the token is stored, the expiry is computed if expires_in
\* is provided (enhanced only), the session header is updated
InstallToken(i, st, r, t) ==
    ExporterState(r.token,
                  IF i = "enhanced" /\ TruthyNumber(r.expires_in)
                  THEN At(t + r.expires_in.n) ELSE st.token_expires_at,
                  Bearer(r.token))

AuthOutcome(ret, st) == [ret |-> ret, st |-> st]

authenticate_InstallsOnAnyStatus(i, st, r, t, json_caught) ==
    IF r.status = 0 THEN AuthOutcome(IF i = "enhanced" THEN "False" ELSE "raised", st)
    ELSE IF r.body = "notjson" THEN
        AuthOutcome(IF i = "enhanced" /\ json_caught THEN "False" ELSE "raised", st)
    ELSE AuthOutcome(IF r.status = HTTP_OK THEN "True" ELSE "False",
                     IF r.body = "doc" THEN InstallToken(i, st, r, t) ELSE st)

\* authenticate: the whole call, one token request.  The basic script has
\* no try; the enhanced one catches requests.exceptions.RequestException,
\* which the JSON error of response.json() is or is not, depending on the
\* requests version.
authenticate(i, st, r, t, json_caught) ==
    IF r.status = 0 THEN AuthOutcome(IF i = "enhanced" THEN "False" ELSE "raised", st)
    ELSE IF r.status = HTTP_OK THEN
        IF r.body = "notjson"
        THEN AuthOutcome(IF i = "enhanced" /\ json_caught THEN "False" ELSE "raised", st)
        ELSE AuthOutcome("True", InstallToken(i, st, r, t))
    ELSE AuthOutcome("False", st)

is_token_valid(tok, exp, t) ==
    IF ~TruthyToken(tok) THEN FALSE
    ELSE IF TruthyNumber(exp) /\ t >= exp.n THEN FALSE
    ELSE TRUE

InitAuth ==
    /\ auth_impl \in Exporters
    /\ access_token = NoToken
    /\ token_expires_at = Never
    /\ authorization = NoHeader
    /\ time_now = 0
    /\ calls = 0
    /\ token_requests = 0
    /\ last_resp = NoTokenResponse
    /\ last_at = 0
    /\ auth_result = "none"
    /\ token_valid = "unchecked"
    /\ MainIdle
    /\ PathIdle
    /\ ExportIdle
    /\ LoadIdle
    /\ PureIdle

\* one call of exporter.authenticate(username, password)
Authenticate ==
    /\ auth_impl \in Exporters
    /\ calls < MaxCalls
    /\ \E r \in TokenResponses, json_caught \in BOOLEAN :
        LET o == authenticate(auth_impl,
                              ExporterState(access_token, token_expires_at, authorization),
                              r, time_now, json_caught) IN
        /\ access_token' = o.st.access_token
        /\ token_expires_at' = o.st.token_expires_at
        /\ authorization' = o.st.authorization
        /\ auth_result' = o.ret
        /\ last_resp' = r
    /\ last_at' = time_now
    /\ calls' = calls + 1
    /\ token_requests' = token_requests + 1
    /\ token_valid' = "unchecked"
    /\ UNCHANGED <<auth_impl, time_now>>
    /\ UNCHANGED <<mainVars, pathVars>>
    /\ UNCHANGED exportVars
    /\ UNCHANGED loadVars
    /\ UNCHANGED pureVars

\* a second passes
Tick ==
    /\ auth_impl \in Exporters
    /\ time_now < MaxNow
    /\ time_now' = time_now + 1
    /\ token_valid' = "unchecked"
    /\ UNCHANGED <<auth_impl, access_token, token_expires_at, authorization, calls,
                   token_requests, last_resp, last_at, auth_result>>
    /\ UNCHANGED <<mainVars, pathVars>>
    /\ UNCHANGED exportVars
    /\ UNCHANGED loadVars
    /\ UNCHANGED pureVars

\* one call of exporter.is_token_valid()
IsTokenValid ==
    /\ auth_impl = "enhanced"
    /\ token_valid = "unchecked"
    /\ token_valid' = IF is_token_valid(access_token, token_expires_at, time_now)
                      THEN "True" ELSE "False"
    /\ UNCHANGED <<auth_impl, access_token, token_expires_at, authorization, time_now,
                   calls, token_requests, last_resp, last_at, auth_result>>
    /\ UNCHANGED <<mainVars, pathVars>>
    /\ UNCHANGED exportVars
    /\ UNCHANGED loadVars
    /\ UNCHANGED pureVars

NextAuth ==
    \/ Authenticate
    \/ Tick
    \/ IsTokenValid

SpecAuth == InitAuth /\ [][NextAuth]_vars

(***************************************************************************)
(* Properties of authenticate                                              *)
(***************************************************************************)
Called == auth_impl \in Exporters /\ calls > 0

\* C24: an authenticate call whose token request is answered with a status
\* other than 200 returns False, has sent that one token request only, and
\* leaves access_token, token_expires_at and the Authorization header of the
\* session as they were.
C24_FailedLoginChangesNothing ==
    [][(calls' = calls + 1 /\ last_resp'.status \notin {HTTP_OK, 0}) =>
          /\ auth_result' = "False"
          /\ token_requests' = token_requests + 1
          /\ access_token' = access_token
          /\ token_expires_at' = token_expires_at
          /\ authorization' = authorization]_vars

\* a login was refused after an earlier one had installed a token with an
\* expiry, and the token, the expiry and the header are still in place
C24_Witness ==
    /\ Called /\ calls = 2 /\ auth_impl = "enhanced"
    /\ last_resp.status \in OtherStatuses /\ last_resp.body = "doc"
    /\ auth_result = "False"
    /\ access_token = Token("t1")
    /\ token_expires_at = At(2)
    /\ authorization = Bearer(Token("t1"))

\* C27: authenticate returns True only if a non-empty access_token was taken
\* from the token response and installed in the session as
\* 'Authorization: Bearer <token>'; a True result of the latest call implies
\* that access_token is not None.
C27_TrueOnlyWithToken ==
    (Called /\ auth_result = "True") =>
        /\ access_token.has
        /\ access_token.txt # ""
        /\ access_token = last_resp.token
        /\ authorization = Bearer(access_token)

\* C28: in the enhanced exporter, after the latest authenticate call has
\* returned True with a non-empty token, is_token_valid() is True from then
\* until the expiry announced by that response, and indefinitely when the
\* response has no expires_in; an expiry recorded by an earlier call does
\* not invalidate the newer token.
C28_ValidUntilAnnouncedExpiry ==
    (Called /\ auth_impl = "enhanced" /\ auth_result = "True"
        /\ TruthyToken(last_resp.token) /\ token_valid # "unchecked"
        /\ (last_resp.expires_in.has => time_now < last_at + last_resp.expires_in.n)) =>
        token_valid = "True"


(***************************************************************************)
(* The main workflows of swimtopia_export.py, swimtopia_export_enhanced.py *)
(* and swimtopia_simple.py.  Each remote step is one call of the function  *)
(* modelled above and is logged in steps with what the call returned.      *)
(***************************************************************************)
Step(name, o) == [step |-> name, out |-> o]

\* bool(v) of a returned value
Truthy(v) ==
    IF v.kind = "True" THEN TRUE
    ELSE IF v.kind = "str" THEN v.val # ""
    ELSE IF v.kind = "task_data" THEN TRUE
    ELSE FALSE

\* task_data.get('attributes', {}).get('exportHref'), or the download_url of
\* the pair wait_for_export returns
ExportHref(v) == IF v.kind \in {"task_data", "url,filename"} THEN v.data.href ELSE "none"
TruthyHref(h) == h \notin {"none", ""}

\* authenticate of swimtopia_simple.py returns the token or None
simple_authenticate(r) ==
    IF r.status = 0 THEN Raise
    ELSE IF r.status = HTTP_OK THEN
        IF r.body = "notjson" THEN Raise
        ELSE Return(IF r.token.has THEN PyStr(r.token.txt) ELSE PyNone, "login")
    ELSE Return(PyNone, "login_failed")

\* what the authenticate call of a fresh exporter gives main
ExporterLogin(i, r, json_caught) ==
    LET o == authenticate(i, ExporterState(NoToken, Never, NoHeader), r, 0, json_caught) IN
    IF o.ret = "raised" THEN Raise
    ELSE Return(IF o.ret = "True" THEN PyTrue ELSE PyFalse, "login")

AuthenticateOutcomes(s) ==
    IF s = "simple" THEN {simple_authenticate(r) : r \in TokenResponses}
    ELSE {ExporterLogin(s, r, json_caught) : r \in TokenResponses, json_caught \in BOOLEAN}

\* list_export_tasks of swimtopia_export.py
list_export_tasks(r) ==
    IF r.status = 0 THEN Raise
    ELSE IF r.status = HTTP_OK THEN
        IF r.body = "notjson" THEN Raise ELSE Return(PyStr("tasks"), "listed")
    ELSE Return(PyNone, "list_failed")

ListOutcomes == {list_export_tasks(r) : r \in PollResponses}

CreateOutcomes(s) ==
    {CreateHandle(s, r, TaskId(s, "", u), json_caught) :
        r \in CreateResponses, u \in {"u1", "u2"}, json_caught \in BOOLEAN}

\* how a whole polling call can end: on a response that ends it, or by
\* running out of attempts / time (main leaves show_progress at its default)
PollOutcomes(s) ==
    IF s = "simple"
    THEN {o \in {WaitHandle(r) : r \in PollResponses} : o.kind # "continue"}
            \cup {WaitTimeoutResult}
    ELSE {o \in {PollHandle(s, r, TRUE, json_caught) :
                    r \in PollResponses, json_caught \in BOOLEAN} : o.kind # "continue"}
            \cup {PollTimeoutResult}

DownloadOutcomes(s) ==
    {IF DownloadHandle(s, r.status).kind = "open" THEN DownloadResult(s)
     ELSE DownloadHandle(s, r.status) : r \in DownloadResponses}

Scripts == Impls

InitMain ==
    /\ script \in Scripts
    /\ mpc = "start"
    /\ steps = <<>>
    /\ list_only \in (IF script = "enhanced" THEN BOOLEAN ELSE {FALSE})
    /\ no_download \in (IF script = "enhanced" THEN BOOLEAN ELSE {FALSE})
    /\ credentials_edited \in (IF script = "simple" THEN BOOLEAN ELSE {TRUE})
    /\ exit_status = "running"
    /\ AuthIdle
    /\ PathIdle
    /\ ExportIdle
    /\ LoadIdle
    /\ PureIdle

Exit(how) ==
    /\ mpc' = "exit"
    /\ exit_status' = how

\* how a script exits when a step has failed
FailureExit(s) == IF s = "basic" THEN "returned" ELSE "exit1"

\* the end of a step: o is what the call gave, and main goes on to next
\* when the call returned and proceed holds
After(name, o, proceed, next) ==
    /\ steps' = Append(steps, Step(name, o))
    /\ IF o.kind = "raise" THEN Exit("raised")
       ELSE IF proceed THEN /\ mpc' = next
                            /\ UNCHANGED exit_status
       ELSE Exit(FailureExit(script))

MainFrame ==
    /\ UNCHANGED <<script, list_only, no_download, credentials_edited>>
    /\ UNCHANGED <<authVars, pathVars>>
    /\ UNCHANGED exportVars
    /\ UNCHANGED loadVars
    /\ UNCHANGED pureVars

\* what precedes the first remote step: the credentials test of
\* swimtopia_simple.py, load_config of the enhanced script
MainEnter ==
    /\ script \in Scripts /\ mpc = "start"
    /\ \E config_loaded \in BOOLEAN :
        IF \/ script = "simple" /\ ~credentials_edited
           \/ script = "enhanced" /\ ~config_loaded
        THEN Exit("exit1")
        ELSE /\ mpc' = "authenticate"
             /\ UNCHANGED exit_status
    /\ UNCHANGED steps
    /\ MainFrame

AuthSucceeded_WhateverReturned(o) == TRUE

\* if not exporter.authenticate(...) / if not token
AuthSucceeded(o) == Truthy(o.value)

MainAuthenticate ==
    /\ mpc = "authenticate"
    /\ \E o \in AuthenticateOutcomes(script) :
        After("authenticate", o, AuthSucceeded(o),
              IF script = "basic" \/ list_only THEN "list" ELSE "create")
    /\ MainFrame

\* Step 2 of swimtopia_export.py, whose result is not used; --list-only of
\* the enhanced script calls a method its exporter does not have
MainList ==
    /\ mpc = "list"
    /\ IF script = "basic"
       THEN \E o \in ListOutcomes : After("list", o, TRUE, "create")
       ELSE /\ Exit("raised")
            /\ UNCHANGED steps
    /\ MainFrame

\* if not task_id
TaskCreated(o) == Truthy(o.value)

MainCreate ==
    /\ mpc = "create"
    /\ \E o \in CreateOutcomes(script) : After("create", o, TaskCreated(o), "poll")
    /\ MainFrame

\* if not task_data / if not download_url
PollSucceeded(s, o) ==
    IF s = "simple" THEN TruthyHref(ExportHref(o.value)) ELSE Truthy(o.value)

\* if export_url, after if not args.no_download
WantsDownload(s, o, skip) ==
    IF s = "simple" THEN TRUE
    ELSE ~skip /\ TruthyHref(ExportHref(o.value))

\* the polling call and the decision about the download
MainPoll ==
    /\ mpc = "poll"
    /\ \E o \in PollOutcomes(script) :
        /\ steps' = Append(steps, Step("poll", o))
        /\ IF o.kind = "raise" THEN Exit("raised")
           ELSE IF ~PollSucceeded(script, o) THEN Exit(FailureExit(script))
           ELSE IF WantsDownload(script, o, no_download)
                THEN /\ mpc' = "download"
                     /\ UNCHANGED exit_status
           ELSE IF script = "enhanced" /\ ~no_download THEN Exit("exit1")
           ELSE Exit("returned")
    /\ MainFrame

\* basic ignores what download_export returns
MainDownload ==
    /\ mpc = "download"
    /\ \E o \in DownloadOutcomes(script) :
        /\ steps' = Append(steps, Step("download", o))
        /\ IF o.kind = "raise" THEN Exit("raised")
           ELSE IF script = "basic" \/ Truthy(o.value) THEN Exit("returned")
           ELSE Exit("exit1")
    /\ MainFrame

NextMain ==
    \/ MainEnter
    \/ MainAuthenticate
    \/ MainList
    \/ MainCreate
    \/ MainPoll
    \/ MainDownload

SpecMain == InitMain /\ [][NextMain]_vars


(***************************************************************************)
(* Properties of the main workflows                                        *)
(***************************************************************************)
WorkflowOrder == <<"authenticate", "create", "poll", "download">>

IsWorkflowStep(e) == e.step # "list"

\* the authenticate, create, poll and download steps made so far
WorkflowSteps == SelectSeq(steps, IsWorkflowStep)

Returned(e) == e.out.kind = "return"

\* C23: in each main workflow the steps authenticate, create task, poll and
\* download are made in this order, each at most once; the creation is
\* requested only after authenticate returned success, the polling is
\* started only after the creation returned a task id, and the download is
\* requested only after the polling returned a completed task with a
\* non-empty exportHref.
C23_StepsInOrderAndGated ==
    (script \in Scripts) =>
        LET ws == WorkflowSteps IN
        /\ Len(ws) <= Len(WorkflowOrder)
        /\ \A k \in 1..Len(ws) : ws[k].step = WorkflowOrder[k]
        /\ Len(ws) >= 2 => (Returned(ws[1]) /\ Truthy(ws[1].out.value))
        /\ Len(ws) >= 3 =>
              (Returned(ws[2]) /\ ws[2].out.value.kind = "str" /\ ws[2].out.value.val # "")
        /\ Len(ws) >= 4 =>
              /\ Returned(ws[3])
              /\ ws[3].out.reason = "completed"
              /\ IsCompleted(ws[3].out.value.data)
              /\ ws[3].out.value.data.href \notin {"none", ""}

\* the enhanced script has gone through all four steps and saved the file
C23_Witness ==
    /\ script = "enhanced" /\ exit_status = "returned"
    /\ Len(steps) = 4
    /\ steps[4].step = "download" /\ steps[4].out.value = PyStr("output_path")
    /\ steps[3].out.value.data.href = "url"


(***************************************************************************)
(* The destination of download_export.  A text is a sequence of pieces:    *)
(* "/" , "?", a quote, "filename=", "..", percent escapes and plain names. *)
(* A path is a sequence of parts, each part a text.                        *)
(***************************************************************************)
MaxNameLen == 3

Quote == "\""
NamePieces == {"a.hy3", "..", "/"}
UrlPieces == {"a.hy3", "%2E%2E", "%2F", "/"}

\* the headers that name a file, quoted or not
NamingHeaders(n) ==
    {<<"attachment; ", "filename=">> \o q \o name \o q :
        q \in {<<>>, <<Quote>>}, name \in SeqsUpTo(NamePieces, n)}

\* no content-disposition header, or one without a filename
OtherHeaders == {<<>>, <<"attachment">>}

UrlBase == <<"https:", "/", "/", "host", "/", "exports", "/">>
DefaultUrl == UrlBase \o <<"a.hy3">>

ArtifactUrls(n) ==
    {UrlBase \o last \o query :
        last \in SeqsUpTo(UrlPieces, n), query \in {<<>>, <<"?", "sig">>}}

OutputDirs == {<<>>, <<<<"exports">>>>}

\* s.split(sep): the pieces between the occurrences of sep
RECURSIVE Split(_, _)
Split(s, sep) ==
    IF \A k \in 1..Len(s) : s[k] # sep THEN <<s>>
    ELSE LET k == CHOOSE i \in 1..Len(s) : s[i] = sep /\ \A j \in 1..(i - 1) : s[j] # sep
         IN  <<SubSeq(s, 1, k - 1)>> \o Split(SubSeq(s, k + 1, Len(s)), sep)

\* s.strip('"')
RECURSIVE Strip_Quotes(_)
Strip_Quotes(s) ==
    IF s # <<>> /\ Head(s) = Quote THEN Strip_Quotes(Tail(s))
    ELSE IF s # <<>> /\ s[Len(s)] = Quote THEN Strip_Quotes(SubSeq(s, 1, Len(s) - 1))
    ELSE s

\* requests.utils.unquote
UnquotePiece(c) == IF c = "%2F" THEN "/" ELSE IF c = "%2E%2E" THEN ".." ELSE c
Unquote(s) == [k \in 1..Len(s) |-> UnquotePiece(s[k])]

\* the filename download_export uses when none is passed
ServerFilename(cd, url) ==
    IF \E k \in 1..Len(cd) : cd[k] = "filename="
    THEN Strip_Quotes(Split(cd, "filename=")[2])
    ELSE LET segments == Split(url, "/") IN
         Unquote(Split(segments[Len(segments)], "?")[1])

NonEmpty(part) == part # <<>>

\* Path(text): absolute when the text starts with "/", empty parts dropped
PathOf(text) ==
    [abs |-> text # <<>> /\ Head(text) = "/", parts |-> SelectSeq(Split(text, "/"), NonEmpty)]

\* Path(output_dir) / output_filename: an absolute right operand replaces
\* the left one
JoinPath(dir, name) ==
    LET p == PathOf(name) IN
    IF p.abs THEN [opened |-> TRUE, abs |-> TRUE, parts |-> p.parts]
    ELSE [opened |-> TRUE, abs |-> FALSE, parts |-> dir \o p.parts]

InitPath ==
    /\ output_dir \in OutputDirs
    /\ \E served \in (NamingHeaders(MaxNameLen) \X {DefaultUrl})
                     \cup (OtherHeaders \X ArtifactUrls(MaxNameLen)) :
        /\ content_disposition = served[1]
        /\ export_url = served[2]
    /\ output_path = NoPath
    /\ AuthIdle
    /\ MainIdle
    /\ ExportIdle
    /\ LoadIdle
    /\ PureIdle

\* download_export after a 200 answer: the filename is derived and the
\* destination is opened for writing
OpenDestination ==
    /\ output_path = NoPath
    /\ export_url # <<>>
    /\ output_path' = JoinPath(output_dir, ServerFilename(content_disposition, export_url))
    /\ UNCHANGED <<output_dir, content_disposition, export_url>>
    /\ UNCHANGED <<authVars, mainVars>>
    /\ UNCHANGED exportVars
    /\ UNCHANGED loadVars
    /\ UNCHANGED pureVars

NextPath == OpenDestination

SpecPath == InitPath /\ [][NextPath]_vars

(***************************************************************************)
(* Properties of the destination                                           *)
(***************************************************************************)
\* where the operating system finds the file: ".." parts are resolved
RECURSIVE Resolved(_, _)
Resolved(done, parts) ==
    IF parts = <<>> THEN done
    ELSE IF Head(parts) = <<"..">> THEN
        Resolved(IF done # <<>> /\ done[Len(done)] # <<"..">>
                 THEN SubSeq(done, 1, Len(done) - 1)
                 ELSE Append(done, <<"..">>),
                 Tail(parts))
    ELSE Resolved(Append(done, Head(parts)), Tail(parts))

\* the path names a file under the directory dir
Inside(dir, p) ==
    LET where == Resolved(<<>>, p.parts) IN
    /\ ~p.abs
    /\ Len(where) > Len(dir)
    /\ SubSeq(where, 1, Len(dir)) = dir
    /\ \A k \in 1..Len(where) : where[k] # <<"..">>

\* the open succeeds and a file is written: the path does not name a
\* directory
NamesFile(p) ==
    LET where == Resolved(<<>>, p.parts) IN
    where # <<>> /\ where[Len(where)] # <<"..">> /\ where # output_dir

\* C29: download_export of the enhanced script writes the artifact only to
\* a path inside output_dir, whatever filename the content-disposition
\* header supplies and whatever the artifact URL is.
C29_WrittenInsideOutputDir ==
    (output_path.opened /\ NamesFile(output_path)) => Inside(output_dir, output_path)

====
